---- MODULE Spec2Model ----
(***************************************************************************)
(* Model of the OAuth broker core of service-provider-integration-oauth:   *)
(* the Flow Controller (commonController.Authenticate / Callback), the     *)
(* Direct Upload Path (TokenUploader.Handle) and the token persistence     *)
(* they drive.  Every inbound request is served by an independent worker;  *)
(* a handler is cut into steps at its outbound calls (provider, cluster    *)
(* API, token storage), so that concurrent handlers interleave there.      *)
(***************************************************************************)
EXTENDS Integers, Sequences, FiniteSets, TLC

(***************************************************************************)
(* Bounds of the model.                                                    *)
(***************************************************************************)
MaxRequests == 2
MaxFlowAge == 1
MaxExternalOps == 1
MaxNow == MaxFlowAge + 1
MaxProviders == 3

Workers == {"w1", "w2"}

(***************************************************************************)
(* State of the system.                                                    *)
(***************************************************************************)
VARIABLES
    now,            \* the clock, in units of the flow age
    records,        \* SPIAccessToken records of the cluster, by owner key
    storage,        \* content of the underlying token storage, by owner key
    writes,         \* history: successful underlying writes, in order
    notifications,  \* history: notifications observed by watchers, in order
    lock,           \* owner key -> worker whose store call is in flight
    emitted,        \* state strings handed to browsers by Authenticate
    inv,            \* worker -> the handler invocation it is running
    nreq,           \* number of requests served or being served
    extOps,         \* number of steps taken by the external collaborators
    config,         \* the configuration the process was started with
    router,         \* the start-up: providers configured, routes registered so far
    sessions,       \* session manager: session -> its value k8s_token
    calls,          \* history: the calls of Login and GetToken, in order
    fetches         \* history: the retrievals of user details from GitHub, in order

vars == <<now, records, storage, writes, notifications, lock, emitted, inv, nreq, extOps,
         config, router, sessions, calls, fetches>>

(***************************************************************************)
(* Values.                                                                 *)
(***************************************************************************)
NoErr == ""
NoToken == [AccessToken |-> <<>>, TokenType |-> "", RefreshToken |-> <<>>, Expiry |-> 0]
NoMetadata == [UserId |-> "", Username |-> ""]

StatusFound == 302
StatusNoContent == 204
StatusBadRequest == 400
StatusUnauthorized == 401
StatusInternalServerError == 500
StatusNotFound == 404
StatusOK == 200

oauthFinishAuthenticated == 0
oauthFinishK8sAuthRequired == 1
oauthFinishError == 2

\* the configuration the service runs with unless another one is tried: texts
\* are sequences of pieces, "/" being a piece of its own
DefaultConfiguration == [BaseUrl |-> <<"https://spi">>, ServiceProviderType |-> "GitHub"]

\* configuration of the controller under test
JwtSigningSecret == "secret"
OtherSecret == "rotated"
BaseUrl == config.BaseUrl
ClientId == "clientId"
ProviderType == config.ServiceProviderType
AuthURL == <<"https://sp", "/", "login">>

\* owner keys (name, namespace) of SPIAccessToken records
Keys == {[Name |-> "t1", Namespace |-> "ns"], [Name |-> "t2", Namespace |-> "ns"]}
InitialKeys == {[Name |-> "t1", Namespace |-> "ns"]}

\* identity facts the cluster derives from a credential (user.DefaultInfo)
EmptyIdentity == [Name |-> "", UID |-> "", Groups |-> <<>>, Extra |-> {}]
AliceIdentity == [Name |-> "alice", UID |-> "u1", Groups |-> <<"dev">>, Extra |-> {<<"scopes", "x">>}]
IdentityOf(cred) == IF cred = "alice-token" THEN AliceIdentity ELSE EmptyIdentity

\* the oauth2.Token the provider's token endpoint hands out in the exchange of
\* request id: a provider mints a fresh token in every exchange
ProviderToken(id) ==
    [AccessToken |-> <<"tok", id>>, TokenType |-> "bearer",
     RefreshToken |-> <<"refresh", id>>, Expiry |-> id]
ExchangeErrors == {"network error", "provider status 400"}
Metadatas == {[UserId |-> "123", Username |-> "john-doe"]}

(***************************************************************************)
(* State codec (package oauthstate of the operator module): a signed       *)
(* envelope around one of the two flow-state variants.                     *)
(***************************************************************************)
AnonymousState(k, t) ==
    [TokenName |-> k.Name, TokenNamespace |-> k.Namespace, IssuedAt |-> t,
     Scopes |-> <<"a", "b">>, ServiceProviderType |-> "GitHub",
     ServiceProviderUrl |-> "https://sp"]

AuthenticatedState(anon, identity, header) ==
    [AnonymousOAuthState |-> anon, KubernetesIdentity |-> identity,
     AuthorizationHeader |-> header]

NoAnonymousState ==
    [TokenName |-> "", TokenNamespace |-> "", IssuedAt |-> 0, Scopes |-> <<>>,
     ServiceProviderType |-> "", ServiceProviderUrl |-> ""]

NoAuthenticatedState == AuthenticatedState(NoAnonymousState, EmptyIdentity, "")

\* a signature: what was signed and with which key, and the set of its bytes
\* that were flipped since
Sign(secret, typ, payload) ==
    [key |-> secret, typ |-> typ, payload |-> payload, flipped |-> {}]

NoSignature == Sign("", "", <<>>)

MalformedState == [typ |-> "malformed", payload |-> <<>>, sig |-> NoSignature]

EmptyStateString == [typ |-> "empty", payload |-> <<>>, sig |-> NoSignature]

\* the payload of an envelope is the serialized state: its claims, in a fixed order
SerializeAnonymous(s) ==
    <<s.TokenName, s.TokenNamespace, s.IssuedAt, s.Scopes, s.ServiceProviderType,
      s.ServiceProviderUrl>>

\* a deserialization that takes the name for the namespace and the other way round
DeserializeAnonymous_SwapsNames(claims) ==
    [TokenName |-> claims[2], TokenNamespace |-> claims[1], IssuedAt |-> claims[3],
     Scopes |-> claims[4], ServiceProviderType |-> claims[5],
     ServiceProviderUrl |-> claims[6]]

DeserializeAnonymous(claims) ==
    [TokenName |-> claims[1], TokenNamespace |-> claims[2], IssuedAt |-> claims[3],
     Scopes |-> claims[4], ServiceProviderType |-> claims[5],
     ServiceProviderUrl |-> claims[6]]

SerializeAuthenticated(s) ==
    SerializeAnonymous(s.AnonymousOAuthState)
        \o <<s.KubernetesIdentity, s.AuthorizationHeader>>

DeserializeAuthenticated(claims) ==
    [AnonymousOAuthState |-> DeserializeAnonymous(SubSeq(claims, 1, 6)),
     KubernetesIdentity |-> claims[7], AuthorizationHeader |-> claims[8]]

Envelope(secret, typ, payload) ==
    [typ |-> typ, payload |-> payload, sig |-> Sign(secret, typ, payload)]

EncodeAnonymous(secret, s) == Envelope(secret, "anonymous", SerializeAnonymous(s))

EncodeAuthenticated(secret, s) ==
    Envelope(secret, "authenticated", SerializeAuthenticated(s))

\* the envelope with byte b of its signature flipped
FlipSignatureByte(env, b) ==
    [env EXCEPT !.sig.flipped = (@ \ {b}) \cup ({b} \ @)]

\* the issuedAt claim, which both variants carry at the same place
IssuedAtOf(env) == env.payload[3]

\* a decoding that never looks at the age of the state
DecodeError_NoExpiryCheck(secret, typ, env, t) ==
    IF env.typ \in {"malformed", "empty"} THEN "Malformed"
    ELSE IF env.sig # Sign(secret, env.typ, env.payload) THEN "InvalidSignature"
    ELSE IF env.typ # typ THEN "VariantMismatch"
    ELSE NoErr

\* what a browser can make of an envelope it holds without the secret: the
\* payload rewritten to name the other owner record, the signature kept
Retarget(env) ==
    [env EXCEPT !.payload[1] = IF @ = "t1" THEN "t2" ELSE "t1"]

\* the error of decoding envelope env as variant typ at time t, NoErr if none
DecodeError(secret, typ, env, t) ==
    IF env.typ \in {"malformed", "empty"} THEN "Malformed"
    ELSE IF env.sig # Sign(secret, env.typ, env.payload) THEN "InvalidSignature"
    ELSE IF env.typ # typ THEN "VariantMismatch"
    ELSE IF t - IssuedAtOf(env) > MaxFlowAge THEN "StateExpired"
    ELSE NoErr

ParseAnonymous(secret, env, t) ==
    LET e == DecodeError(secret, "anonymous", env, t)
    IN  [state |-> IF e = NoErr THEN DeserializeAnonymous(env.payload) ELSE NoAnonymousState,
         err |-> e]

ParseAuthenticated(secret, env, t) ==
    LET e == DecodeError(secret, "authenticated", env, t)
    IN  [state |-> IF e = NoErr THEN DeserializeAuthenticated(env.payload)
                   ELSE NoAuthenticatedState,
         err |-> e]

(***************************************************************************)
(* http.ResponseWriter: the first WriteHeader decides the status; the      *)
(* headers set afterwards are not sent.                                    *)
(***************************************************************************)
NewResponse == [status |-> 0, headerCalls |-> <<>>, location |-> <<>>, body |-> <<>>]

WriteHeader(w, status) ==
    [w EXCEPT !.headerCalls = Append(@, status),
              !.status = IF @ = 0 THEN status ELSE @]

Fprintf(w, chunk) == [w EXCEPT !.body = Append(@, chunk)]

\* fmt.Fprintf(w, msg+": ", err.Error()): the format has no verb for the
\* argument, which is therefore appended as %!(EXTRA string=...)
\* a response that carries the message alone
logAndWriteResponse_DropsError(w, status, msg, err) ==
    Fprintf(WriteHeader(w, status), <<msg>>)

logAndWriteResponse(w, status, msg, err) ==
    Fprintf(WriteHeader(w, status), <<msg, ": ", "%!(EXTRA string=", err, ")">>)

\* the pieces a URL of the model starts with when it names a scheme and a host
Origins == {"https://spi", "https://sp", "https://x"}

\* path.Split: the directory of a path, up to and including its last "/"
RECURSIVE DirOf(_)
DirOf(path) ==
    IF Len(path) = 0 \/ path[Len(path)] = "/" THEN path
    ELSE DirOf(SubSeq(path, 1, Len(path) - 1))

\* path.Clean with the trailing "/" put back, on paths without dot segments:
\* a run of "/" becomes one
RECURSIVE CleanPath(_)
CleanPath(path) ==
    IF Len(path) < 2 THEN path
    ELSE IF path[1] = "/" /\ path[2] = "/" THEN CleanPath(Tail(path))
    ELSE <<path[1]>> \o CleanPath(Tail(path))

\* the Location http.Redirect sends for url while serving the request at path:
\* a URL without scheme and host is made an absolute, cleaned path
RedirectLocation(path, url) ==
    IF Len(url) > 0 /\ url[1] \in Origins THEN url
    ELSE IF Len(url) = 0 \/ url[1] # "/" THEN CleanPath(DirOf(path) \o url)
    ELSE CleanPath(url)

\* http.Redirect
Redirect(w, path, url, status) ==
    WriteHeader([w EXCEPT !.location = IF w.status = 0 THEN RedirectLocation(path, url)
                                       ELSE @], status)


(***************************************************************************)
(* oauth2.Config of the controller.                                        *)
(***************************************************************************)
ToLower(t) == IF t = "GitHub" THEN "github" ELSE IF t = "Quay" THEN "quay" ELSE t

\* strings.TrimSuffix
TrimSuffix(s, suffix) ==
    IF Len(s) > 0 /\ s[Len(s)] = suffix THEN SubSeq(s, 1, Len(s) - 1) ELSE s

\* a callback URL built from the base URL as it is configured
redirectUrl_KeepsTrailingSlash ==
    BaseUrl \o <<"/", ToLower(ProviderType), "/", "callback">>

\* commonController.redirectUrl
redirectUrl ==
    TrimSuffix(BaseUrl, "/") \o <<"/", ToLower(ProviderType), "/", "callback">>

\* the path the router serves a handler of the controller at
RequestPath(handler) == <<"/", ToLower(ProviderType), "/", handler>>

\* scopes joined by commas
RECURSIVE JoinScopes_Commas(_)
JoinScopes_Commas(scopes) ==
    IF Len(scopes) = 0 THEN <<>>
    ELSE IF Len(scopes) = 1 THEN <<scopes[1]>>
    ELSE <<scopes[1], ",">> \o JoinScopes_Commas(Tail(scopes))

\* strings.Join(scopes, " ")
RECURSIVE JoinScopes(_)
JoinScopes(scopes) ==
    IF Len(scopes) = 0 THEN <<>>
    ELSE IF Len(scopes) = 1 THEN <<scopes[1]>>
    ELSE <<scopes[1], " ">> \o JoinScopes(Tail(scopes))

\* oauth2.Config.AuthCodeURL
AuthCodeURL(scopes, stateString) ==
    AuthURL \o <<"?",
      [client_id |-> ClientId, redirect_uri |-> redirectUrl,
       response_type |-> "code", scope |-> JoinScopes(scopes),
       state |-> stateString]>>

NoWorker == "none"
NoKey == [Name |-> "", Namespace |-> ""]
NoRecord == [exists |-> FALSE, metadata |-> NoMetadata, resourceVersion |-> 0]
NoObject == [key |-> NoKey, metadata |-> NoMetadata, resourceVersion |-> 0]
NoOps == [exchanges |-> 0, metadataFetches |-> 0, lookups |-> 0, stores |-> 0,
          writes |-> 0, notifies |-> 0, updates |-> 0, updated |-> 0]
\* history: what each outbound call of the invocation came back with
NotCalled == "-"
NoOutcomes == [encode |-> NotCalled, exchange |-> NotCalled, metadata |-> NotCalled,
               lookup |-> NotCalled, write |-> NotCalled, notify |-> NotCalled,
               update |-> NotCalled, auth |-> NotCalled, body |-> NotCalled]
NoRequest == [state |-> EmptyStateString, credential |-> "", redirect_after_login |-> <<>>,
              scope |-> <<>>, key |-> NoKey, bodyOk |-> FALSE]
\* history: what the code exchange sent to the provider's token endpoint
NoExchangeRequest == [redirect_uri |-> <<>>, scope |-> <<>>]

\* history: what finishOAuthExchange reported to Callback
NoFinish ==
    [called |-> FALSE, token |-> NoToken, result |-> oauthFinishAuthenticated, err |-> NoErr]

IdleInvocation ==
    [kind |-> "none", pc |-> "idle", id |-> 0, stateErr |-> NoErr, tooOld |-> FALSE,
     req |-> NoRequest,
     resp |-> NewResponse,
     token |-> NoToken, state |-> NoAuthenticatedState, metadata |-> NoMetadata,
     accessToken |-> NoObject, ops |-> NoOps, out |-> NoOutcomes,
     exchangeRequest |-> NoExchangeRequest, returned |-> NotCalled, finish |-> NoFinish,
     redirected |-> FALSE, panicked |-> FALSE]

\* the invocation serving request req, the id-th request; stateErr records
\* what decoding the state parameter as variant typ gives when it arrives, and
\* tooOld whether the state it carries was by then older than the flow may last
NewInvocation(kind, id, typ, req) ==
    [IdleInvocation EXCEPT !.kind = kind, !.id = id, !.req = req,
        !.stateErr = IF typ = "" THEN NoErr
                     ELSE DecodeError(JwtSigningSecret, typ, req.state, now),
        !.tooOld = /\ typ # ""
                   /\ req.state.typ \in {"anonymous", "authenticated"}
                   /\ now - IssuedAtOf(req.state) > MaxFlowAge]

(***************************************************************************)
(* Authenticator: Login and GetToken over the session manager.             *)
(***************************************************************************)
\* the calls of Login and GetToken followed
MaxCalls == 3

\* the sessions of the browsers
Sessions == {"s1", "s2"}

\* the k8s_token form fields and the Authorization headers Login is tried on
LoginForms == {"", "alice-token", "bob-token"}
LoginHeaders == {"", "Bearer alice-token", "Basic alice-token"}

\* the bearer token of an Authorization header, empty when it names none
ExtractTokenFromAuthorizationHeader(header) ==
    IF header = "Bearer alice-token" THEN "alice-token" ELSE ""

\* Authenticator.tokenReview: the review is disabled, every token passes
tokenReview(token) == [hasAccess |-> TRUE, err |-> NoErr]

\* the response with a status and a message
logDebugAndWriteResponse(w, status, msg) == Fprintf(WriteHeader(w, status), <<msg>>)

\* the response with a status, a message and the error
logErrorAndWriteResponse(w, status, msg, err) == logAndWriteResponse(w, status, msg, err)

\* a Login that prefers the Authorization header to the form field
login_HeaderFirst(form, header) ==
    LET token == IF ExtractTokenFromAuthorizationHeader(header) # ""
                 THEN ExtractTokenFromAuthorizationHeader(header) ELSE form
    IN  IF token = ""
        THEN [put |-> FALSE, token |-> "",
              resp |-> logDebugAndWriteResponse(NewResponse, StatusUnauthorized,
                  "failed extract authorization info either from headers or form parameters")]
        ELSE [put |-> TRUE, token |-> token, resp |-> WriteHeader(NewResponse, StatusOK)]

\* Authenticator.Login on a request with the k8s_token form field and the
\* Authorization header given: whether it puts a token into the session, which
\* one, and what it answers
login(form, header) ==
    LET token == IF form = "" THEN ExtractTokenFromAuthorizationHeader(header) ELSE form
        review == tokenReview(token)
    IN  IF token = ""
        THEN [put |-> FALSE, token |-> "",
              resp |-> logDebugAndWriteResponse(NewResponse, StatusUnauthorized,
                  "failed extract authorization info either from headers or form parameters")]
        ELSE IF review.err # NoErr
        THEN [put |-> FALSE, token |-> "",
              resp |-> logErrorAndWriteResponse(NewResponse, StatusUnauthorized,
                  "failed to determine if the authenticated user has access", review.err)]
        ELSE IF ~review.hasAccess
        THEN [put |-> FALSE, token |-> "",
              resp |-> logDebugAndWriteResponse(NewResponse, StatusUnauthorized,
                  "authenticating the request in Kubernetes unsuccessful")]
        ELSE [put |-> TRUE, token |-> token, resp |-> WriteHeader(NewResponse, StatusOK)]

\* Authenticator.GetToken in a session whose value k8s_token is value
GetToken(value) ==
    IF value = "" THEN [token |-> "", err |-> "no token associated with the given session"]
    ELSE [token |-> value, err |-> NoErr]

(***************************************************************************)
(* retrieveGitHubUserDetails.  A JSON value is held with its type; the     *)
(* body of a response is unparsable or an object with or without the       *)
(* members login and id.                                                   *)
(***************************************************************************)
\* the retrievals followed
MaxFetches == 2

JsonAbsent == [type |-> "absent", str |-> "", num |-> 0]
JsonNull == [type |-> "null", str |-> "", num |-> 0]
JsonString(t) == [type |-> "string", str |-> t, num |-> 0]
JsonNumber(n) == [type |-> "number", str |-> "", num |-> n]

\* what GitHub, or whatever answers in its place, can send back
GitHubResponses ==
    {[err |-> NoErr, status |-> st, parsable |-> TRUE, login |-> l, id |-> i] :
        st \in {StatusOK, StatusUnauthorized},
        l \in {JsonAbsent, JsonNull, JsonString(""), JsonString("john-doe"), JsonNumber(7)},
        i \in {JsonAbsent, JsonNumber(123), JsonString("123")}}
      \cup {[err |-> NoErr, status |-> st, parsable |-> FALSE,
              login |-> JsonAbsent, id |-> JsonAbsent] :
                st \in {StatusOK, StatusUnauthorized}}
      \cup {[err |-> "connection refused", status |-> 0, parsable |-> FALSE,
              login |-> JsonAbsent, id |-> JsonAbsent]}

\* strconv.FormatFloat(x, 'f', -1, 64) of a whole number: its digits
FormatFloat(x) == IF x = 123 THEN "123" ELSE IF x = 7 THEN "7" ELSE "0"

\* what a retrieval ends with: the metadata and the error returned, or a fault
Retrieved(metadata, err) == [metadata |-> metadata, err |-> err, panicked |-> FALSE]
Faulted == [metadata |-> NoMetadata, err |-> NoErr, panicked |-> TRUE]

\* retrieveGitHubUserDetails, from the response of client.Do on: the type
\* assertions content["login"].(string) and content["id"].(float64) fault on
\* a member of another type, and the first on a member that is missing
retrieveGitHubUserDetails(response) ==
    IF response.err # NoErr THEN Retrieved(NoMetadata, response.err)
    ELSE IF response.status # StatusOK
    THEN Retrieved(NoMetadata, "failed to retrieve user details from GitHub")
    ELSE IF ~response.parsable THEN Retrieved(NoMetadata, "invalid character")
    ELSE IF response.login.type # "string" THEN Faulted
    ELSE IF response.login.str = ""
    THEN Retrieved(NoMetadata, "failed to determine the user name from the GitHub response")
    ELSE IF response.id.type = "absent"
    THEN Retrieved(NoMetadata, "failed to determine the user ID from the GitHub response")
    ELSE IF response.id.type # "number" THEN Faulted
    ELSE Retrieved([UserId |-> FormatFloat(response.id.num), Username |-> response.login.str],
                   NoErr)

\* the Authorization header retrieveGitHubUserDetails sends with the token
BearerHeader(token) == <<"Bearer ">> \o token.AccessToken

(***************************************************************************)
(* FromConfiguration and the loop of start that registers the routes of    *)
(* the configured service providers.                                       *)
(***************************************************************************)
\* config.ServiceProviderType: the built-in types and one that is none
ServiceProviderTypeGitHub == "GitHub"
ServiceProviderTypeQuay == "Quay"
ServiceProviderTypes == {ServiceProviderTypeGitHub, ServiceProviderTypeQuay, "GitLab"}

\* github.Endpoint and quayEndpoint
GitHubEndpoint ==
    [AuthURL |-> "https://github.com/login/oauth/authorize",
     TokenURL |-> "https://github.com/login/oauth/access_token"]
quayEndpoint ==
    [AuthURL |-> "https://quay.io/oauth/authorize",
     TokenURL |-> "https://quay.io/oauth/access_token"]
NoEndpoint == [AuthURL |-> "", TokenURL |-> ""]

\* a nil Controller
NoController ==
    [ServiceProviderType |-> "", Endpoint |-> NoEndpoint, RetrieveUserMetadata |-> ""]

\* what building the authenticator, the cluster client and the token storage
\* of a controller can end with
CollaboratorErrors == {NoErr, "failed to create kubernetes client"}

\* a factory that takes every type it does not know for GitHub
FromConfiguration_DefaultsToGitHub(spType, collaboratorsErr) ==
    IF collaboratorsErr # NoErr
    THEN [controller |-> NoController, err |-> collaboratorsErr]
    ELSE IF spType = ServiceProviderTypeQuay
    THEN [controller |-> [ServiceProviderType |-> spType, Endpoint |-> quayEndpoint,
                          RetrieveUserMetadata |-> "retrieveQuayUserDetails"],
          err |-> NoErr]
    ELSE [controller |-> [ServiceProviderType |-> spType, Endpoint |-> GitHubEndpoint,
                          RetrieveUserMetadata |-> "retrieveGitHubUserDetails"],
          err |-> NoErr]

\* controllers.FromConfiguration for a provider of type spType, when building
\* the controller's collaborators ends with collaboratorsErr
FromConfiguration(spType, collaboratorsErr) ==
    IF collaboratorsErr # NoErr
    THEN [controller |-> NoController, err |-> collaboratorsErr]
    ELSE IF spType = ServiceProviderTypeGitHub
    THEN [controller |-> [ServiceProviderType |-> spType, Endpoint |-> GitHubEndpoint,
                          RetrieveUserMetadata |-> "retrieveGitHubUserDetails"],
          err |-> NoErr]
    ELSE IF spType = ServiceProviderTypeQuay
    THEN [controller |-> [ServiceProviderType |-> spType, Endpoint |-> quayEndpoint,
                          RetrieveUserMetadata |-> "retrieveQuayUserDetails"],
          err |-> NoErr]
    ELSE [controller |-> NoController, err |-> "not implemented yet"]

\* the routes start registers before it turns to the service providers
StaticRoutes ==
    {<<"/", "health">>, <<"/", "ready">>, <<"/", "callback_success">>, <<"/", "login">>,
     <<"/", "{type}", "/", "callback">>, <<"/", "token", "/", "{namespace}", "/", "{name}">>}

\* the two routes of a service provider
ProviderRoutes(spType) ==
    {<<"/", ToLower(spType), "/", "authenticate">>, <<"/", ToLower(spType), "/", "callback">>}

\* the service providers a configuration can list
ProviderLists == UNION {[1 .. n -> ServiceProviderTypes] : n \in 0 .. MaxProviders}

\* history: a call of FromConfiguration, what it was given and what it returned
Constructed(spType, collaboratorsErr) ==
    [spType |-> spType, collaboratorsErr |-> collaboratorsErr,
     returned |-> FromConfiguration(spType, collaboratorsErr)]

\* start on entering its loop over the service providers of the configuration
Starting(providers) ==
    [pc |-> "registering", providers |-> providers, next |-> 1, routes |-> StaticRoutes,
     constructed |-> <<>>]

\* start once the routes of its only service provider are registered and the
\* server listens
Served(spType) ==
    [pc |-> "serving", providers |-> <<spType>>, next |-> 2,
     routes |-> StaticRoutes \cup ProviderRoutes(spType),
     constructed |-> <<Constructed(spType, NoErr)>>]

\* the process right after start, whatever it was configured with
Started ==
    /\ now = 0
    /\ records = [k \in Keys |->
                    IF k \in InitialKeys
                    THEN [exists |-> TRUE, metadata |-> NoMetadata, resourceVersion |-> 1]
                    ELSE NoRecord]
    /\ storage = [k \in Keys |-> NoToken]
    /\ writes = <<>>
    /\ notifications = <<>>
    /\ lock = [k \in Keys |-> NoWorker]
    /\ emitted = {}
    /\ inv = [w \in Workers |-> IdleInvocation]
    /\ nreq = 0
    /\ extOps = 0
    /\ sessions = [s \in Sessions |-> ""]
    /\ calls = <<>>
    /\ fetches = <<>>

Init ==
    /\ Started
    /\ config = DefaultConfiguration
    /\ router = Served(DefaultConfiguration.ServiceProviderType)

\* the configurations tried: base URLs with and without trailing slashes, for
\* either built-in provider
Configurations ==
    {[BaseUrl |-> b, ServiceProviderType |-> p] :
        b \in {<<"https://spi">>, <<"https://spi", "/">>, <<"https://spi", "/", "/">>},
        p \in {"GitHub", "Quay"}}

InitConfigured ==
    /\ Started
    /\ \E c \in Configurations :
          config = c /\ router = Served(c.ServiceProviderType)

Free(w) == inv[w].pc \in {"idle", "done"}

\* the next request goes to the first worker that is not in the middle of one
CanBegin(w) ==
    /\ nreq < MaxRequests
    /\ Free(w)
    /\ w = "w2" => ~Free("w1")

\* requests are numbered in the order they arrive
NextId == nreq + 1

(***************************************************************************)
(* The environment: time, and the external collaborators that create and   *)
(* reconcile owner records.                                                *)
(***************************************************************************)
Tick ==
    /\ now < MaxNow
    /\ now' = now + 1
    /\ UNCHANGED <<config, router, sessions, calls, fetches, records, storage, writes, notifications, lock, emitted, inv, nreq, extOps>>

ExternalReconcile ==
    /\ extOps < MaxExternalOps
    /\ \E k \in Keys :
        /\ records[k].exists
        /\ records' = [records EXCEPT ![k].resourceVersion = @ + 1]
    /\ extOps' = extOps + 1
    /\ UNCHANGED <<config, router, sessions, calls, fetches, now, storage, writes, notifications, lock, emitted, inv, nreq>>


(***************************************************************************)
(* commonController.Authenticate.  The handler makes no outbound call, so  *)
(* it is one step.                                                         *)
(***************************************************************************)
NewCodecError(secret) == IF secret = "" THEN "empty secret" ELSE NoErr

\* the requests Authenticate is tried on: states minted by the operator for
\* either owner key, at the start or just now, with and without a credential;
\* garbage; a state signed with another secret; a state whose signature was
\* tampered with; a state of the other variant
AuthenticateRequests ==
    LET k1 == [Name |-> "t1", Namespace |-> "ns"]
        k2 == [Name |-> "t2", Namespace |-> "ns"]
        Valid(k, t) == EncodeAnonymous(JwtSigningSecret, AnonymousState(k, t))
    IN  {[NoRequest EXCEPT !.state = Valid(k1, 0), !.credential = "alice-token",
                           !.scope = <<"x", ",", "y">>],
         [NoRequest EXCEPT !.state = Valid(k1, 0)],
         [NoRequest EXCEPT !.state = Valid(k2, 0), !.credential = "alice-token"],
         [NoRequest EXCEPT !.state = Valid(k1, now), !.credential = "alice-token"],
         [NoRequest EXCEPT !.state = MalformedState, !.credential = "alice-token"],
         [NoRequest EXCEPT !.state = FlipSignatureByte(Valid(k1, 0), 1),
                           !.credential = "alice-token"],
         [NoRequest EXCEPT !.state = EncodeAnonymous(OtherSecret, AnonymousState(k1, now)),
                           !.credential = "alice-token"]}
        \cup {[NoRequest EXCEPT !.state = e, !.credential = "alice-token"] : e \in emitted}

EncodeErrors == {NoErr, "EncodingError"}

\* an Authenticate that goes on whatever the state decodes to
authenticate_IgnoresStateError(stateString, t, encodeErr) ==
    LET parsed == ParseAnonymous(JwtSigningSecret, stateString, t)
        authedState == AuthenticatedState(parsed.state, EmptyIdentity, "")
        encoded == IF encodeErr = NoErr
                   THEN EncodeAuthenticated(JwtSigningSecret, authedState)
                   ELSE EmptyStateString
        w1 == IF encodeErr # NoErr
              THEN logAndWriteResponse(NewResponse, StatusInternalServerError,
                                       "failed to encode OAuth state", encodeErr)
              ELSE NewResponse
        url == AuthCodeURL(authedState.AnonymousOAuthState.Scopes, encoded)
    IN  [resp |-> Redirect(w1, RequestPath("authenticate"), url, StatusFound),
         redirected |-> TRUE, encoded |-> encoded, encodes |-> 1]

\* an Authenticate that says nothing about a state it could not encode
authenticate_SwallowsEncodeError(stateString, t, encodeErr) ==
    LET parsed == ParseAnonymous(JwtSigningSecret, stateString, t)
        authedState == AuthenticatedState(parsed.state, EmptyIdentity, "")
        encoded == IF encodeErr = NoErr
                   THEN EncodeAuthenticated(JwtSigningSecret, authedState)
                   ELSE EmptyStateString
        url == AuthCodeURL(authedState.AnonymousOAuthState.Scopes, encoded)
    IN  IF parsed.err # NoErr
        THEN [resp |-> logAndWriteResponse(NewResponse, StatusBadRequest,
                          "failed to decode the OAuth state", parsed.err),
              redirected |-> FALSE, encoded |-> EmptyStateString, encodes |-> 0]
        ELSE [resp |-> Redirect(NewResponse, RequestPath("authenticate"), url, StatusFound),
              redirected |-> TRUE, encoded |-> encoded, encodes |-> 1]

\* the response of Authenticate to a request carrying stateString, when the
\* encoding of the authenticated state ends with encodeErr
authenticate(stateString, t, encodeErr) ==
    LET codecErr == NewCodecError(JwtSigningSecret)
        parsed == ParseAnonymous(JwtSigningSecret, stateString, t)
        identity == EmptyIdentity
        authorizationHeader == ""
        authedState == AuthenticatedState(parsed.state, identity, authorizationHeader)
        encoded == IF encodeErr = NoErr
                   THEN EncodeAuthenticated(JwtSigningSecret, authedState)
                   ELSE EmptyStateString
        w1 == IF encodeErr # NoErr
              THEN logAndWriteResponse(NewResponse, StatusInternalServerError,
                                       "failed to encode OAuth state", encodeErr)
              ELSE NewResponse
        url == AuthCodeURL(authedState.AnonymousOAuthState.Scopes, encoded)
    IN  IF codecErr # NoErr
        THEN [resp |-> logAndWriteResponse(NewResponse, StatusInternalServerError,
                          "failed to instantiate OAuth stateString codec", codecErr),
              redirected |-> FALSE, encoded |-> EmptyStateString, encodes |-> 0]
        ELSE IF parsed.err # NoErr
        THEN [resp |-> logAndWriteResponse(NewResponse, StatusBadRequest,
                          "failed to decode the OAuth state", parsed.err),
              redirected |-> FALSE, encoded |-> EmptyStateString, encodes |-> 0]
        ELSE [resp |-> Redirect(w1, RequestPath("authenticate"), url, StatusFound),
              redirected |-> TRUE, encoded |-> encoded, encodes |-> 1]

\* an Authenticate that notes the flow it started on the owner record
Authenticate_NotesFlowOnRecord(w) ==
    /\ CanBegin(w)
    /\ \E req \in AuthenticateRequests, encodeErr \in EncodeErrors :
        LET r == authenticate(req.state, now, encodeErr)
        IN  /\ inv' = [inv EXCEPT ![w] =
                          [NewInvocation("authenticate", NextId, "anonymous", req) EXCEPT
                              !.pc = "done", !.resp = r.resp, !.redirected = r.redirected,
                              !.out.encode = IF r.encodes = 0 THEN NotCalled ELSE encodeErr]]
            /\ emitted' = IF r.resp.status = StatusFound /\ r.encoded.typ # "empty"
                          THEN emitted \cup {r.encoded}
                          ELSE emitted
            /\ records' = [k \in Keys |->
                             IF r.redirected /\ records[k].exists
                             THEN [records[k] EXCEPT !.resourceVersion = @ + 1]
                             ELSE records[k]]
    /\ nreq' = nreq + 1
    /\ UNCHANGED <<config, router, sessions, calls, fetches, now, storage, writes, notifications, lock, extOps>>

Authenticate(w) ==
    /\ CanBegin(w)
    /\ \E req \in AuthenticateRequests, encodeErr \in EncodeErrors :
        LET r == authenticate(req.state, now, encodeErr)
        IN  /\ inv' = [inv EXCEPT ![w] =
                          [NewInvocation("authenticate", NextId, "anonymous", req) EXCEPT
                              !.pc = "done", !.resp = r.resp, !.redirected = r.redirected,
                              !.out.encode = IF r.encodes = 0 THEN NotCalled ELSE encodeErr]]
            \* the browser gets the state in the Location header it is sent
            /\ emitted' = IF r.resp.status = StatusFound /\ r.encoded.typ # "empty"
                          THEN emitted \cup {r.encoded}
                          ELSE emitted
    /\ nreq' = nreq + 1
    /\ UNCHANGED <<config, router, sessions, calls, fetches, now, records, storage, writes, notifications, lock, extOps>>

(***************************************************************************)
(* commonController.Callback.                                              *)
(***************************************************************************)
\* the states Callback is tried on: those a browser got from Authenticate,
\* as they are, with the signature tampered with and with the payload
\* rewritten; garbage; a state of the other variant; a state signed with
\* another secret
CallbackStateInputs ==
    LET k1 == [Name |-> "t1", Namespace |-> "ns"]
    IN  emitted
            \cup {FlipSignatureByte(e, 2) : e \in emitted}
            \cup {Retarget(e) : e \in emitted}
            \cup {MalformedState,
                  EncodeAnonymous(JwtSigningSecret, AnonymousState(k1, now)),
                  EncodeAuthenticated(OtherSecret,
                      AuthenticatedState(AnonymousState(k1, now), EmptyIdentity, ""))}

\* the credential and the redirect_after_login parameter Callback is tried on
CallbackParams ==
    {[credential |-> "", redirect_after_login |-> <<>>, scope |-> <<>>],
     [credential |-> "alice-token", redirect_after_login |-> <<"https://x", "/", "y">>,
      scope |-> <<"repo">>],
     [credential |-> "", redirect_after_login |-> <<"done">>, scope |-> <<>>]}

\* what oauth2.Config.Exchange can come back with in request id
ExchangeOutcomes(id) ==
    {[token |-> ProviderToken(id), err |-> NoErr]}
        \cup {[token |-> NoToken, err |-> e] : e \in ExchangeErrors}

\* finishOAuthExchange, lines 186-196: what oauthCfg.Exchange sends to the token
\* endpoint besides the code, the scope parameter of the request passed along
ExchangeRequest(req) == [redirect_uri |-> redirectUrl, scope |-> req.scope]

\* finishOAuthExchange going on to the exchange whatever the state decodes to
finishOAuthExchange_IgnoresStateError(stateString, t, exch) ==
    LET parsed == ParseAuthenticated(JwtSigningSecret, stateString, t)
    IN  IF exch.err # NoErr
        THEN [token |-> NoToken, state |-> NoAuthenticatedState,
              result |-> oauthFinishError, err |-> exch.err, exchanges |-> 1]
        ELSE [token |-> exch.token, state |-> parsed.state,
              result |-> oauthFinishAuthenticated, err |-> NoErr, exchanges |-> 1]

\* a Callback that verifies states with another secret than Authenticate signs with
finishOAuthExchange_OtherSecret(stateString, t, exch) ==
    LET parsed == ParseAuthenticated(OtherSecret, stateString, t)
    IN  IF parsed.err # NoErr
        THEN [token |-> NoToken, state |-> NoAuthenticatedState,
              result |-> oauthFinishError, err |-> parsed.err, exchanges |-> 0]
        ELSE IF exch.err # NoErr
        THEN [token |-> NoToken, state |-> NoAuthenticatedState,
              result |-> oauthFinishError, err |-> exch.err, exchanges |-> 1]
        ELSE [token |-> exch.token, state |-> parsed.state,
              result |-> oauthFinishAuthenticated, err |-> NoErr, exchanges |-> 1]

\* a Callback that turns down a state whose owner record already got a token
finishOAuthExchange_SingleUse(stateString, t, exch) ==
    LET parsed == ParseAuthenticated(JwtSigningSecret, stateString, t)
    IN  IF parsed.err # NoErr
        THEN [token |-> NoToken, state |-> NoAuthenticatedState,
              result |-> oauthFinishError, err |-> parsed.err, exchanges |-> 0]
        ELSE IF \E j \in DOMAIN writes :
                    writes[j].key = [Name |-> parsed.state.AnonymousOAuthState.TokenName,
                                     Namespace |-> parsed.state.AnonymousOAuthState.TokenNamespace]
        THEN [token |-> NoToken, state |-> NoAuthenticatedState,
              result |-> oauthFinishError, err |-> "state already used", exchanges |-> 0]
        ELSE IF exch.err # NoErr
        THEN [token |-> NoToken, state |-> NoAuthenticatedState,
              result |-> oauthFinishError, err |-> exch.err, exchanges |-> 1]
        ELSE [token |-> exch.token, state |-> parsed.state,
              result |-> oauthFinishAuthenticated, err |-> NoErr, exchanges |-> 1]

\* a finishOAuthExchange that reports K8sAuthRequired, without an error, for a
\* state that embeds no identity
finishOAuthExchange_ReportsAuthRequired(stateString, t, exch) ==
    LET parsed == ParseAuthenticated(JwtSigningSecret, stateString, t)
    IN  IF parsed.err # NoErr
        THEN [token |-> NoToken, state |-> NoAuthenticatedState,
              result |-> oauthFinishError, err |-> parsed.err, exchanges |-> 0]
        ELSE IF parsed.state.KubernetesIdentity = EmptyIdentity
        THEN [token |-> NoToken, state |-> NoAuthenticatedState,
              result |-> oauthFinishK8sAuthRequired, err |-> NoErr, exchanges |-> 0]
        ELSE IF exch.err # NoErr
        THEN [token |-> NoToken, state |-> NoAuthenticatedState,
              result |-> oauthFinishError, err |-> exch.err, exchanges |-> 1]
        ELSE [token |-> exch.token, state |-> parsed.state,
              result |-> oauthFinishAuthenticated, err |-> NoErr, exchanges |-> 1]

\* commonController.finishOAuthExchange, exch being the outcome of the code
\* exchange when the exchange is reached
finishOAuthExchange(stateString, t, exch) ==
    LET codecErr == NewCodecError(JwtSigningSecret)
        parsed == ParseAuthenticated(JwtSigningSecret, stateString, t)
    IN  IF codecErr # NoErr
        THEN [token |-> NoToken, state |-> NoAuthenticatedState,
              result |-> oauthFinishError, err |-> codecErr, exchanges |-> 0]
        ELSE IF parsed.err # NoErr
        THEN [token |-> NoToken, state |-> NoAuthenticatedState,
              result |-> oauthFinishError, err |-> parsed.err, exchanges |-> 0]
        ELSE IF exch.err # NoErr
        THEN [token |-> NoToken, state |-> NoAuthenticatedState,
              result |-> oauthFinishError, err |-> exch.err, exchanges |-> 1]
        ELSE [token |-> exch.token, state |-> parsed.state,
              result |-> oauthFinishAuthenticated, err |-> NoErr, exchanges |-> 1]

\* Callback, lines 122-131: the exchange and the handling of its result
CallbackExchange(w) ==
    /\ CanBegin(w)
    /\ \E stateString \in CallbackStateInputs, par \in CallbackParams,
          exch \in ExchangeOutcomes(NextId) :
        LET f == finishOAuthExchange(stateString, now, exch)
            req == [NoRequest EXCEPT !.state = stateString, !.credential = par.credential,
                                     !.redirect_after_login = par.redirect_after_login,
                                     !.scope = par.scope]
            i0 == [NewInvocation("callback", NextId, "authenticated", req) EXCEPT
                      !.ops.exchanges = f.exchanges,
                      !.finish = [called |-> TRUE, token |-> f.token, result |-> f.result,
                                  err |-> f.err],
                      !.exchangeRequest = IF f.exchanges = 0 THEN NoExchangeRequest
                                          ELSE ExchangeRequest(req),
                      !.out.exchange = IF f.exchanges = 0 THEN NotCalled ELSE exch.err]
        IN  inv' = [inv EXCEPT ![w] =
                IF f.err # NoErr
                THEN [i0 EXCEPT !.pc = "done",
                                !.resp = logAndWriteResponse(NewResponse, StatusBadRequest,
                                    "error in Service Provider token exchange", f.err)]
                ELSE IF f.result = oauthFinishK8sAuthRequired
                \* err is nil here and err.Error() faults after the header is written
                THEN [i0 EXCEPT !.pc = "done", !.panicked = TRUE,
                                !.resp = WriteHeader(NewResponse, StatusUnauthorized)]
                ELSE [i0 EXCEPT !.pc = "cb_metadata", !.token = f.token, !.state = f.state]]
    /\ nreq' = nreq + 1
    /\ UNCHANGED <<config, router, sessions, calls, fetches, now, records, storage, writes, notifications, lock, emitted, extOps>>

\* what RetrieveUserMetadata can come back with
MetadataOutcomes ==
    {[metadata |-> m, err |-> NoErr] : m \in Metadatas}
        \cup {[metadata |-> NoMetadata, err |-> "failed to retrieve user details"]}

\* a Callback that goes on to the token sync whatever the metadata fetch returned
CallbackRetrieveUserMetadata_IgnoresError(w) ==
    /\ inv[w].kind = "callback" /\ inv[w].pc = "cb_metadata"
    /\ \E m \in MetadataOutcomes :
        LET i0 == [inv[w] EXCEPT !.ops.metadataFetches = @ + 1, !.out.metadata = m.err]
        IN  inv' = [inv EXCEPT ![w] = [i0 EXCEPT !.pc = "cb_get", !.metadata = m.metadata]]
    /\ UNCHANGED <<config, router, sessions, calls, fetches, now, records, storage, writes, notifications, lock, emitted, nreq, extOps>>

\* Callback, lines 133-137
CallbackRetrieveUserMetadata(w) ==
    /\ inv[w].kind = "callback" /\ inv[w].pc = "cb_metadata"
    /\ \E m \in MetadataOutcomes :
        LET i0 == [inv[w] EXCEPT !.ops.metadataFetches = @ + 1, !.out.metadata = m.err]
        IN  inv' = [inv EXCEPT ![w] =
                IF m.err # NoErr
                THEN [i0 EXCEPT !.pc = "done",
                                !.resp = logAndWriteResponse(i0.resp, StatusInternalServerError,
                                    "failed to get Service Provider user", m.err)]
                ELSE [i0 EXCEPT !.pc = "cb_get", !.metadata = m.metadata]]
    /\ UNCHANGED <<config, router, sessions, calls, fetches, now, records, storage, writes, notifications, lock, emitted, nreq, extOps>>


(***************************************************************************)
(* commonController.syncTokenData, as called by Callback (lines 139-149).  *)
(***************************************************************************)
\* a sync that takes every flow for one of the first owner record
KeyOf_FirstRecord(state) == [Name |-> "t1", Namespace |-> "ns"]

KeyOf(state) ==
    [Name |-> state.AnonymousOAuthState.TokenName,
     Namespace |-> state.AnonymousOAuthState.TokenNamespace]

\* The Expiry of an oauth2.Token is a time.Time, held here as the count of
\* seconds Unix() gives for it; widths and instants are scaled down: an
\* unsigned field of Uint64Bits bits stands for the uint64, and the zero
\* time.Time, which a token without expiry carries and which lies before the
\* epoch, for year 1
Uint64Bits == 8
Uint64Modulus == 2 ^ Uint64Bits
ZeroTimeUnix == -62

\* the conversion uint64(x) of a signed count of seconds
ToUint64(x) == x % Uint64Modulus

\* a v1beta1.Token that leaves the refresh token out
ApiToken_DropsRefreshToken(token) ==
    [AccessToken |-> token.AccessToken, TokenType |-> token.TokenType,
     RefreshToken |-> <<>>, Expiry |-> ToUint64(token.Expiry)]

\* the v1beta1.Token built from the provider's token
ApiToken(token) ==
    [AccessToken |-> token.AccessToken, TokenType |-> token.TokenType,
     RefreshToken |-> token.RefreshToken, Expiry |-> ToUint64(token.Expiry)]

\* a lookup that hands back an empty object where the record is missing
K8sGet_IgnoresNotFound(k) ==
    IF k \in Keys /\ records[k].exists
    THEN [obj |-> [key |-> k, metadata |-> records[k].metadata,
                   resourceVersion |-> records[k].resourceVersion],
          err |-> NoErr]
    ELSE [obj |-> [key |-> k, metadata |-> NoMetadata, resourceVersion |-> 0],
          err |-> NoErr]

\* K8sClient.Get of the record at key k: the object read, or a not-found error
K8sGet(k) ==
    IF k \in Keys /\ records[k].exists
    THEN [obj |-> [key |-> k, metadata |-> records[k].metadata,
                   resourceVersion |-> records[k].resourceVersion],
          err |-> NoErr]
    ELSE [obj |-> NoObject, err |-> "NotFound"]

\* the error K8sClient.Update of obj is refused with by the cluster, if any
K8sUpdateError(obj) ==
    IF ~(obj.key \in Keys /\ records[obj.key].exists) THEN "NotFound"
    ELSE IF records[obj.key].resourceVersion # obj.resourceVersion THEN "Conflict"
    ELSE NoErr

\* Callback, lines 139-143, when syncTokenData returned err
SyncFailed(i, err) ==
    [i EXCEPT !.pc = "done",
              !.resp = logAndWriteResponse(i.resp, StatusInternalServerError,
                                           "failed to store token data to cluster", err)]

\* a syncTokenData that looks the record up a second time when it was not found
CallbackGet_RetriesOnce(w) ==
    /\ inv[w].kind = "callback" /\ inv[w].pc = "cb_get"
    /\ LET g == K8sGet(KeyOf(inv[w].state))
           i0 == [inv[w] EXCEPT !.ops.lookups = @ + 1, !.out.lookup = g.err]
       IN  inv' = [inv EXCEPT ![w] =
               IF g.err # NoErr /\ inv[w].ops.lookups = 0 THEN i0
               ELSE IF g.err # NoErr THEN SyncFailed(i0, g.err)
               ELSE [i0 EXCEPT !.pc = "store_write", !.accessToken = g.obj,
                               !.token = ApiToken(i0.token)]]
    /\ UNCHANGED <<config, router, sessions, calls, fetches, now, records, storage, writes, notifications, lock, emitted, nreq, extOps>>

\* syncTokenData, lines 206-216
CallbackGet(w) ==
    /\ inv[w].kind = "callback" /\ inv[w].pc = "cb_get"
    /\ LET g == K8sGet(KeyOf(inv[w].state))
           i0 == [inv[w] EXCEPT !.ops.lookups = @ + 1, !.out.lookup = g.err]
       IN  inv' = [inv EXCEPT ![w] =
               IF g.err # NoErr
               THEN SyncFailed(i0, g.err)
               ELSE [i0 EXCEPT !.pc = "store_write", !.accessToken = g.obj,
                               !.token = ApiToken(i0.token)]]
    /\ UNCHANGED <<config, router, sessions, calls, fetches, now, records, storage, writes, notifications, lock, emitted, nreq, extOps>>

\* a Callback that sends every browser to the default location
CallbackRedirectLocation_AlwaysDefault(req) ==
    TrimSuffix(BaseUrl, "/") \o <<"/", "callback_success">>

\* Callback, lines 145-148: where the browser is sent after a successful flow
CallbackRedirectLocation(req) ==
    IF req.redirect_after_login = <<>>
    THEN TrimSuffix(BaseUrl, "/") \o <<"/", "callback_success">>
    ELSE req.redirect_after_login

CallbackUpdate_RollsBack(w) ==
    /\ inv[w].kind = "callback" /\ inv[w].pc = "cb_update"
    /\ \E serverErr \in {NoErr, "ServerError"} :
        LET obj == [inv[w].accessToken EXCEPT !.metadata = inv[w].metadata]
            err == IF K8sUpdateError(obj) # NoErr THEN K8sUpdateError(obj) ELSE serverErr
            i0 == [inv[w] EXCEPT !.ops.updates = @ + 1, !.accessToken = obj,
                                 !.out.update = err]
            redirectLocation == CallbackRedirectLocation(i0.req)
        IN  IF err # NoErr
            THEN /\ inv' = [inv EXCEPT ![w] = SyncFailed(i0, err)]
                 /\ storage' = [storage EXCEPT ![obj.key] = NoToken]
                 /\ UNCHANGED records
            ELSE /\ inv' = [inv EXCEPT ![w] =
                        [i0 EXCEPT !.pc = "done", !.ops.updated = @ + 1, !.redirected = TRUE,
                                   !.resp = Redirect(i0.resp, RequestPath("callback"), redirectLocation,
                                                    StatusFound)]]
                 /\ records' = [records EXCEPT ![obj.key] =
                        [exists |-> TRUE, metadata |-> obj.metadata,
                         resourceVersion |-> obj.resourceVersion + 1]]
                 /\ UNCHANGED storage
    /\ UNCHANGED <<config, router, sessions, calls, fetches, now, writes, notifications, lock, emitted, nreq, extOps>>

\* a Callback that takes a refused update of the record for done
CallbackUpdate_IgnoresError(w) ==
    /\ inv[w].kind = "callback" /\ inv[w].pc = "cb_update"
    /\ \E serverErr \in {NoErr, "ServerError"} :
        LET obj == [inv[w].accessToken EXCEPT !.metadata = inv[w].metadata]
            err == IF K8sUpdateError(obj) # NoErr THEN K8sUpdateError(obj) ELSE serverErr
            i0 == [inv[w] EXCEPT !.ops.updates = @ + 1, !.accessToken = obj,
                                 !.out.update = err]
            redirectLocation == CallbackRedirectLocation(i0.req)
        IN  /\ inv' = [inv EXCEPT ![w] =
                   [i0 EXCEPT !.pc = "done", !.redirected = TRUE,
                              !.ops.updated = IF err = NoErr THEN @ + 1 ELSE @,
                              !.resp = Redirect(i0.resp, RequestPath("callback"), redirectLocation,
                                                StatusFound)]]
            /\ records' = IF err # NoErr THEN records
                          ELSE [records EXCEPT ![obj.key] =
                                   [exists |-> TRUE, metadata |-> obj.metadata,
                                    resourceVersion |-> obj.resourceVersion + 1]]
    /\ UNCHANGED <<config, router, sessions, calls, fetches, now, storage, writes, notifications, lock, emitted, nreq, extOps>>

\* syncTokenData, lines 223-229, and Callback, lines 145-149
CallbackUpdate(w) ==
    /\ inv[w].kind = "callback" /\ inv[w].pc = "cb_update"
    /\ \E serverErr \in {NoErr, "ServerError"} :
        LET obj == [inv[w].accessToken EXCEPT !.metadata = inv[w].metadata]
            err == IF K8sUpdateError(obj) # NoErr THEN K8sUpdateError(obj) ELSE serverErr
            i0 == [inv[w] EXCEPT !.ops.updates = @ + 1, !.accessToken = obj,
                                 !.out.update = err]
            redirectLocation == CallbackRedirectLocation(i0.req)
        IN  IF err # NoErr
            THEN /\ inv' = [inv EXCEPT ![w] = SyncFailed(i0, err)]
                 /\ UNCHANGED records
            ELSE /\ inv' = [inv EXCEPT ![w] =
                        [i0 EXCEPT !.pc = "done", !.ops.updated = @ + 1, !.redirected = TRUE,
                                   !.resp = Redirect(i0.resp, RequestPath("callback"), redirectLocation,
                                                    StatusFound)]]
                 /\ records' = [records EXCEPT ![obj.key] =
                        [exists |-> TRUE, metadata |-> obj.metadata,
                         resourceVersion |-> obj.resourceVersion + 1]]
    /\ UNCHANGED <<config, router, sessions, calls, fetches, now, storage, writes, notifications, lock, emitted, nreq, extOps>>

(***************************************************************************)
(* TokenUploader.Handle and handleUpload.                                  *)
(***************************************************************************)
\* the token a well-formed request body decodes to
UploadedToken ==
    [AccessToken |-> <<"42">>, TokenType |-> "", RefreshToken |-> <<>>, Expiry |-> 0]

\* the requests Handle is tried on
UploadRequests ==
    LET k1 == [Name |-> "t1", Namespace |-> "ns"]
        k2 == [Name |-> "t2", Namespace |-> "ns"]
    IN  {[NoRequest EXCEPT !.credential = "alice-token", !.key = k1, !.bodyOk = TRUE],
         [NoRequest EXCEPT !.credential = "alice-token", !.key = k2, !.bodyOk = TRUE],
         [NoRequest EXCEPT !.credential = "alice-token", !.key = k1],
         [NoRequest EXCEPT !.key = k1, !.bodyOk = TRUE]}

\* WithAuthFromRequestIntoContext: the request must carry a bearer credential
WithAuthFromRequestIntoContext(cred) == IF cred = "" THEN "no bearer token" ELSE NoErr

\* the status code an error of the cluster API carries, 0 for an error that
\* is none
APIStatusCode(err) == IF err = "NotFound" THEN StatusNotFound ELSE 0

\* an endpoint that reports success whatever Handle returned
handleUpload_AlwaysNoContent(w, err) == WriteHeader(w, StatusNoContent)

\* handleUpload: the status written for the result of Handle
handleUpload(w, err) ==
    IF err = NoErr THEN WriteHeader(w, StatusNoContent)
    ELSE IF APIStatusCode(err) # 0 THEN WriteHeader(w, APIStatusCode(err))
    ELSE WriteHeader(w, StatusInternalServerError)

\* handleUpload around a Handle that returned err
UploadReturned(i, err) ==
    [i EXCEPT !.pc = "done", !.returned = err, !.resp = handleUpload(i.resp, err)]

\* Handle, lines 32-40
UploadBegin(w) ==
    /\ CanBegin(w)
    /\ \E req \in UploadRequests :
        LET err == WithAuthFromRequestIntoContext(req.credential)
            i0 == [NewInvocation("upload", NextId, "", req) EXCEPT !.out.auth = err]
        IN  inv' = [inv EXCEPT ![w] =
                IF err # NoErr THEN UploadReturned(i0, err)
                ELSE [i0 EXCEPT !.pc = "up_get"]]
    /\ nreq' = nreq + 1
    /\ UNCHANGED <<config, router, sessions, calls, fetches, now, records, storage, writes, notifications, lock, emitted, extOps>>

\* a Handle that stores whatever the body decoded to
UploadGet_IgnoresBodyError(w) ==
    /\ inv[w].kind = "upload" /\ inv[w].pc = "up_get"
    /\ LET g == K8sGet(inv[w].req.key)
           bodyErr == IF inv[w].req.bodyOk THEN NoErr ELSE "malformed JSON"
           i0 == [inv[w] EXCEPT !.ops.lookups = @ + 1, !.out.lookup = g.err,
                                !.out.body = IF g.err # NoErr THEN NotCalled ELSE bodyErr]
       IN  inv' = [inv EXCEPT ![w] =
               IF g.err # NoErr THEN UploadReturned(i0, g.err)
               ELSE [i0 EXCEPT !.pc = "store_write", !.accessToken = g.obj,
                               !.token = IF bodyErr = NoErr THEN UploadedToken ELSE NoToken]]
    /\ UNCHANGED <<config, router, sessions, calls, fetches, now, records, storage, writes, notifications, lock, emitted, nreq, extOps>>

\* Handle, lines 42-50
UploadGet(w) ==
    /\ inv[w].kind = "upload" /\ inv[w].pc = "up_get"
    /\ LET g == K8sGet(inv[w].req.key)
           bodyErr == IF inv[w].req.bodyOk THEN NoErr ELSE "malformed JSON"
           i0 == [inv[w] EXCEPT !.ops.lookups = @ + 1, !.out.lookup = g.err,
                                !.out.body = IF g.err # NoErr THEN NotCalled ELSE bodyErr]
       IN  inv' = [inv EXCEPT ![w] =
               IF g.err # NoErr THEN UploadReturned(i0, g.err)
               ELSE IF bodyErr # NoErr THEN UploadReturned(i0, bodyErr)
               ELSE [i0 EXCEPT !.pc = "store_write", !.accessToken = g.obj,
                               !.token = UploadedToken]]
    /\ UNCHANGED <<config, router, sessions, calls, fetches, now, records, storage, writes, notifications, lock, emitted, nreq, extOps>>

(***************************************************************************)
(* The TokenStorage the handlers write through.  FromConfiguration and     *)
(* start wrap the backing storage into a NotifyingTokenStorage, whose      *)
(* Store(owner, token) makes the underlying write and then notifies the    *)
(* cluster; the store calls of one owner key are serialized.               *)
(***************************************************************************)
\* FromConfiguration: the controller's TokenStorage is the notifying wrapper
ControllerStorageNotifies == TRUE

\* an uploader handed the backing storage itself
UploaderStorage_Plain == FALSE

\* start: the uploader's Storage is the notifying wrapper
UploaderStorageNotifies == TRUE

Notifying(i) ==
    IF i.kind = "callback" THEN ControllerStorageNotifies ELSE UploaderStorageNotifies

\* a Handle that drops the error of the store call
StoreFailed_DropsUploadError(i, err) ==
    IF i.kind = "callback" THEN SyncFailed(i, err) ELSE UploadReturned(i, NoErr)

\* a Callback that goes on to the update of the record after a failed store
StoreFailed_GoesOnToUpdate(i, err) ==
    IF i.kind = "callback" THEN [i EXCEPT !.pc = "cb_update"] ELSE UploadReturned(i, err)

\* the caller's handling of the error the store call returned
StoreFailed(i, err) ==
    IF i.kind = "callback" THEN SyncFailed(i, err) ELSE UploadReturned(i, err)

\* the caller's continuation after a successful store call
StoreSucceeded(i) ==
    IF i.kind = "callback" THEN [i EXCEPT !.pc = "cb_update"]
    ELSE UploadReturned(i, NoErr)

\* a store that announces the token although its write failed
StoreWrite_NotifiesFailedWrite(w) ==
    /\ inv[w].pc = "store_write"
    /\ LET k == inv[w].accessToken.key
       IN  /\ Notifying(inv[w]) => lock[k] = NoWorker
           /\ \E err \in {NoErr, "storage unavailable"} :
                LET i0 == [inv[w] EXCEPT !.ops.stores = @ + 1, !.out.write = err]
                    i1 == [i0 EXCEPT !.ops.writes = @ + 1]
                IN
                IF err # NoErr
                THEN /\ lock' = [lock EXCEPT ![k] = w]
                     /\ inv' = [inv EXCEPT ![w] = [i0 EXCEPT !.pc = "store_notify"]]
                     /\ UNCHANGED <<storage, writes>>
                ELSE /\ storage' = [storage EXCEPT ![k] = i0.token]
                     /\ writes' = Append(writes, [key |-> k, token |-> i0.token, by |-> i0.id])
                     /\ IF Notifying(i0)
                        THEN /\ lock' = [lock EXCEPT ![k] = w]
                             /\ inv' = [inv EXCEPT ![w] = [i1 EXCEPT !.pc = "store_notify"]]
                        ELSE /\ UNCHANGED lock
                             /\ inv' = [inv EXCEPT ![w] = StoreSucceeded(i1)]
    /\ UNCHANGED <<config, router, sessions, calls, fetches, now, records, notifications, emitted, nreq, extOps>>

\* Store, first half: the underlying write, under the owner key's lock
StoreWrite(w) ==
    /\ inv[w].pc = "store_write"
    /\ LET k == inv[w].accessToken.key
       IN  /\ Notifying(inv[w]) => lock[k] = NoWorker
           /\ \E err \in {NoErr, "storage unavailable"} :
                LET i0 == [inv[w] EXCEPT !.ops.stores = @ + 1, !.out.write = err]
                    i1 == [i0 EXCEPT !.ops.writes = @ + 1]
                IN
                IF err # NoErr
                THEN /\ inv' = [inv EXCEPT ![w] = StoreFailed(i0, err)]
                     /\ UNCHANGED <<storage, writes, lock>>
                ELSE /\ storage' = [storage EXCEPT ![k] = i0.token]
                     /\ writes' = Append(writes, [key |-> k, token |-> i0.token, by |-> i0.id])
                     /\ IF Notifying(i0)
                        THEN /\ lock' = [lock EXCEPT ![k] = w]
                             /\ inv' = [inv EXCEPT ![w] = [i1 EXCEPT !.pc = "store_notify"]]
                        ELSE /\ UNCHANGED lock
                             /\ inv' = [inv EXCEPT ![w] = StoreSucceeded(i1)]
    /\ UNCHANGED <<config, router, sessions, calls, fetches, now, records, notifications, emitted, nreq, extOps>>

StoreNotify(w) ==
    /\ inv[w].pc = "store_notify"
    /\ LET k == inv[w].accessToken.key
       IN  /\ lock' = [lock EXCEPT ![k] = NoWorker]
           /\ \E err \in {NoErr, "notification failed"} :
                LET i0 == [inv[w] EXCEPT !.out.notify = err]
                IN
                IF err # NoErr
                THEN /\ inv' = [inv EXCEPT ![w] = StoreFailed(i0, err)]
                     /\ UNCHANGED notifications
                ELSE /\ notifications' = Append(notifications, [key |-> k, by |-> i0.id])
                     /\ inv' = [inv EXCEPT ![w] =
                                   StoreSucceeded([i0 EXCEPT !.ops.notifies = @ + 1])]
    /\ UNCHANGED <<config, router, sessions, calls, fetches, now, records, storage, writes, emitted, nreq, extOps>>

(***************************************************************************)
(* The system.                                                             *)
(***************************************************************************)
Next ==
    \/ Tick
    \/ ExternalReconcile
    \/ \E w \in Workers : Authenticate(w)
    \/ \E w \in Workers : CallbackExchange(w)
    \/ \E w \in Workers : CallbackRetrieveUserMetadata(w)
    \/ \E w \in Workers : CallbackGet(w)
    \/ \E w \in Workers : CallbackUpdate(w)
    \/ \E w \in Workers : UploadBegin(w)
    \/ \E w \in Workers : UploadGet(w)
    \/ \E w \in Workers : StoreWrite(w)
    \/ \E w \in Workers : StoreNotify(w)

Spec == Init /\ [][Next]_vars

\* start, lines 377-391: one turn of the loop over cfg.ServiceProviders.  The
\* error of FromConfiguration is logged and the loop goes on to take the
\* method value controller.Authenticate, which faults on the nil controller
StartServiceProvider ==
    /\ router.pc = "registering"
    /\ router.next <= Len(router.providers)
    /\ \E collaboratorsErr \in CollaboratorErrors :
        LET sp == router.providers[router.next]
            c == FromConfiguration(sp, collaboratorsErr)
            r0 == [router EXCEPT !.constructed = Append(@, Constructed(sp, collaboratorsErr))]
        IN  router' = IF c.err # NoErr
                      THEN [r0 EXCEPT !.pc = "panicked"]
                      ELSE [r0 EXCEPT !.next = @ + 1,
                                      !.routes = @ \cup ProviderRoutes(sp)]
    /\ UNCHANGED <<config, sessions, calls, fetches, now, records, storage, writes, notifications,
                   lock, emitted, inv, nreq, extOps>>

\* start, lines 393-408: the loop is over, the server listens
StartListenAndServe ==
    /\ router.pc = "registering"
    /\ router.next > Len(router.providers)
    /\ router' = [router EXCEPT !.pc = "serving"]
    /\ UNCHANGED <<config, sessions, calls, fetches, now, records, storage, writes, notifications,
                   lock, emitted, inv, nreq, extOps>>

InitStartup ==
    /\ Started
    /\ config = DefaultConfiguration
    /\ router \in {Starting(l) : l \in ProviderLists}

NextStartup == StartServiceProvider \/ StartListenAndServe

\* the start-up of the process under each list of service providers
SpecStartup == InitStartup /\ [][NextStartup]_vars

\* POST /login in session s
Login(s) ==
    /\ Len(calls) < MaxCalls
    /\ \E form \in LoginForms, header \in LoginHeaders :
        LET l == login(form, header)
        IN  /\ sessions' = IF l.put THEN [sessions EXCEPT ![s] = l.token] ELSE sessions
            /\ calls' = Append(calls, [op |-> "Login", session |-> s, form |-> form,
                                        header |-> header, status |-> l.resp.status,
                                        token |-> "", err |-> NoErr])
    /\ UNCHANGED <<config, router, fetches, now, records, storage, writes, notifications, lock,
                   emitted, inv, nreq, extOps>>

\* a handler asking for the token of session s
SessionGetToken(s) ==
    /\ Len(calls) < MaxCalls
    /\ LET g == GetToken(sessions[s])
       IN  calls' = Append(calls, [op |-> "GetToken", session |-> s, form |-> "",
                                   header |-> "", status |-> 0,
                                   token |-> g.token, err |-> g.err])
    /\ UNCHANGED <<config, router, sessions, fetches, now, records, storage, writes, notifications,
                   lock, emitted, inv, nreq, extOps>>

NextLogin ==
    \/ \E s \in Sessions : Login(s)
    \/ \E s \in Sessions : SessionGetToken(s)

\* the sessions of the Authenticator
SpecLogin == Init /\ [][NextLogin]_vars

\* the service some time after its start: an Authenticate, served before the
\* requests that are counted, has handed the state of a flow for the first
\* owner record to a browser
InitAfterAuthenticate ==
    LET k1 == [Name |-> "t1", Namespace |-> "ns"]
        stateString == EncodeAnonymous(JwtSigningSecret, AnonymousState(k1, 0))
    IN  /\ config = DefaultConfiguration
        /\ router = Served(DefaultConfiguration.ServiceProviderType)
        /\ now = 0
        /\ records = [k \in Keys |->
                        IF k \in InitialKeys
                        THEN [exists |-> TRUE, metadata |-> NoMetadata, resourceVersion |-> 1]
                        ELSE NoRecord]
        /\ storage = [k \in Keys |-> NoToken]
        /\ writes = <<>>
        /\ notifications = <<>>
        /\ lock = [k \in Keys |-> NoWorker]
        /\ emitted = {authenticate(stateString, 0, NoErr).encoded}
        /\ inv = [w \in Workers |-> IdleInvocation]
        /\ nreq = 0
        /\ extOps = 0
        /\ sessions = [s \in Sessions |-> ""]
        /\ calls = <<>>
        /\ fetches = <<>>

\* the requests that reach the token storage, and their steps
NextPersistence ==
    \/ \E w \in Workers : CallbackExchange(w)
    \/ \E w \in Workers : CallbackRetrieveUserMetadata(w)
    \/ \E w \in Workers : CallbackGet(w)
    \/ \E w \in Workers : CallbackUpdate(w)
    \/ \E w \in Workers : UploadBegin(w)
    \/ \E w \in Workers : UploadGet(w)
    \/ \E w \in Workers : StoreWrite(w)
    \/ \E w \in Workers : StoreNotify(w)

\* Callbacks and Direct Uploads that follow an Authenticate
SpecPersistence == InitAfterAuthenticate /\ [][NextPersistence]_vars

\* the tokens the exchange can return: with and without a refresh token, with
\* an expiry from the epoch on or with none
MaxExpiry == 20
ExchangeTokens ==
    {[AccessToken |-> <<"tok", 1>>, TokenType |-> "bearer", RefreshToken |-> r, Expiry |-> e] :
        r \in {<<>>, <<"refresh", 1>>}, e \in {ZeroTimeUnix} \cup 0 .. MaxExpiry}

\* a Callback for the first owner record that comes back from the exchange
\* with one of these tokens and from the metadata retrieval, and turns to
\* syncTokenData
InitAfterExchange ==
    LET k1 == [Name |-> "t1", Namespace |-> "ns"]
        stateString == EncodeAnonymous(JwtSigningSecret, AnonymousState(k1, 0))
    IN  /\ config = DefaultConfiguration
        /\ router = Served(DefaultConfiguration.ServiceProviderType)
        /\ now = 0
        /\ records = [k \in Keys |->
                        IF k \in InitialKeys
                        THEN [exists |-> TRUE, metadata |-> NoMetadata, resourceVersion |-> 1]
                        ELSE NoRecord]
        /\ storage = [k \in Keys |-> NoToken]
        /\ writes = <<>>
        /\ notifications = <<>>
        /\ lock = [k \in Keys |-> NoWorker]
        /\ emitted = {authenticate(stateString, 0, NoErr).encoded}
        /\ \E token \in ExchangeTokens, m \in Metadatas :
              LET e == authenticate(stateString, 0, NoErr).encoded
                  f == finishOAuthExchange(e, 0, [token |-> token, err |-> NoErr])
                  req == [NoRequest EXCEPT !.state = e]
                  i0 == [NewInvocation("callback", 1, "authenticated", req) EXCEPT
                            !.ops.exchanges = f.exchanges, !.ops.metadataFetches = 1,
                            !.finish = [called |-> TRUE, token |-> f.token,
                                        result |-> f.result, err |-> f.err],
                            !.exchangeRequest = ExchangeRequest(req),
                            !.out.exchange = NoErr, !.out.metadata = NoErr,
                            !.pc = "cb_get", !.token = f.token, !.state = f.state,
                            !.metadata = m]
              IN  inv = [w \in Workers |-> IF w = "w1" THEN i0 ELSE IdleInvocation]
        /\ nreq = 1
        /\ extOps = 0
        /\ sessions = [s \in Sessions |-> ""]
        /\ calls = <<>>
        /\ fetches = <<>>

\* the steps of syncTokenData, and the external controller at work meanwhile
NextSync ==
    \/ ExternalReconcile
    \/ \E w \in Workers : CallbackGet(w)
    \/ \E w \in Workers : CallbackUpdate(w)
    \/ \E w \in Workers : StoreWrite(w)
    \/ \E w \in Workers : StoreNotify(w)

\* the token sync of a Callback for each token the exchange can return
SpecSync == InitAfterExchange /\ [][NextSync]_vars

\* retrieveGitHubUserDetails called with the token of an exchange
RetrieveGitHubUserDetails ==
    /\ Len(fetches) < MaxFetches
    /\ \E id \in {1, 2}, response \in GitHubResponses :
        fetches' = Append(fetches,
                      [token |-> ProviderToken(id), authorization |-> BearerHeader(ProviderToken(id)),
                       response |-> response,
                       returned |-> retrieveGitHubUserDetails(response)])
    /\ UNCHANGED <<config, router, sessions, calls, now, records, storage, writes,
                   notifications, lock, emitted, inv, nreq, extOps>>

NextUserDetails == RetrieveGitHubUserDetails

\* the retrievals of user details from GitHub
SpecUserDetails == Init /\ [][NextUserDetails]_vars

\* the steps of a flow that send something to the provider
NextFlow ==
    \/ Tick
    \/ \E w \in Workers : Authenticate(w)
    \/ \E w \in Workers : CallbackExchange(w)

\* the flow under each of the configurations
SpecConfigured == InitConfigured /\ [][NextFlow]_vars


(***************************************************************************)
(* What the properties below read off a state.                             *)
(***************************************************************************)
IsCallback(w) == inv[w].kind = "callback"

IsDone(w) == inv[w].pc = "done"

\* the outbound call c of the invocation was made and came back with an error
Failed(w, c) == inv[w].out[c] \notin {NoErr, NotCalled}

\* no outbound call of the invocation came back with an error
NothingFailed(w) == \A c \in DOMAIN inv[w].out : ~Failed(w, c)

\* the positions in the write history of the writes made for request id
WritesBy(id) == {j \in DOMAIN writes : writes[j].by = id}

NotificationsBy(id) == {j \in DOMAIN notifications : notifications[j].by = id}

\* the key the decoded state of a callback names
RequestedKey(w) == KeyOf(DeserializeAuthenticated(inv[w].req.state.payload))

\* the token of the latest write made at key k
LastWritten(k) ==
    LET S == {j \in DOMAIN writes : writes[j].key = k}
    IN  writes[CHOOSE j \in S : \A l \in S : l <= j].token

\* the response body carries the text e
BodyIncludes(resp, e) ==
    \E i \in DOMAIN resp.body : \E j \in DOMAIN resp.body[i] : resp.body[i][j] = e

\* the identity the state embeds is not the identity of the caller
IdentityDiffers(w) ==
    DeserializeAuthenticated(inv[w].req.state.payload).KubernetesIdentity
        # IdentityOf(inv[w].req.credential)

(***************************************************************************)
(* C1.  A callback whose state decodes but embeds an identity other than   *)
(* the caller's answers 401 and writes neither a token nor a record.       *)
(* The code makes no such comparison: this is what the sentence asks for.  *)
(***************************************************************************)
C1_IdentityMismatchIsRejected ==
    \A w \in Workers :
        (IsCallback(w) /\ inv[w].stateErr = NoErr /\ IdentityDiffers(w))
            => /\ IsDone(w)
               /\ inv[w].resp.status = StatusUnauthorized
               /\ WritesBy(inv[w].id) = {}
               /\ inv[w].ops.stores = 0
               /\ inv[w].ops.updates = 0

(***************************************************************************)
(* C2.  A callback whose state does not decode (bad signature, malformed,  *)
(* expired, wrong variant) answers 400 and makes no outbound call at all:  *)
(* no exchange, no metadata fetch, no lookup, no storage write, no update. *)
(***************************************************************************)
C2_UndecodableStateIsRejected ==
    \A w \in Workers :
        (IsCallback(w) /\ inv[w].stateErr # NoErr)
            => /\ IsDone(w)
               /\ inv[w].resp.headerCalls = <<StatusBadRequest>>
               /\ inv[w].resp.status = StatusBadRequest
               /\ inv[w].ops = NoOps
               /\ inv[w].out = NoOutcomes
               /\ WritesBy(inv[w].id) = {}
               /\ ~inv[w].redirected

C2_Witness ==
    \E w \in Workers :
        /\ IsCallback(w) /\ IsDone(w) /\ inv[w].stateErr = "StateExpired"
        /\ inv[w].req.state \in emitted
        /\ inv[w].resp.status = StatusBadRequest

(***************************************************************************)
(* C3.  A callback that completes with every step succeeding has made      *)
(* exactly one token-storage write: at the key its state names, carrying   *)
(* the access token, token type and refresh token the provider returned;   *)
(* and it answers 302.                                                     *)
(***************************************************************************)
C3_SuccessfulCallbackWritesOnce ==
    \A w \in Workers :
        (IsCallback(w) /\ IsDone(w) /\ inv[w].stateErr = NoErr /\ NothingFailed(w))
            => /\ Cardinality(WritesBy(inv[w].id)) = 1
               /\ \A j \in WritesBy(inv[w].id) :
                    /\ writes[j].key = RequestedKey(w)
                    /\ writes[j].token.AccessToken = ProviderToken(inv[w].id).AccessToken
                    /\ writes[j].token.TokenType = ProviderToken(inv[w].id).TokenType
                    /\ writes[j].token.RefreshToken = ProviderToken(inv[w].id).RefreshToken
               /\ inv[w].resp.headerCalls = <<StatusFound>>
               /\ inv[w].resp.status = StatusFound

C3_Witness ==
    \E w \in Workers :
        /\ IsCallback(w) /\ IsDone(w) /\ inv[w].stateErr = NoErr /\ NothingFailed(w)
        /\ inv[w].out.update = NoErr
        /\ inv[w].resp.status = StatusFound
        /\ \E j \in WritesBy(inv[w].id) : storage[writes[j].key] = ProviderToken(inv[w].id)

(***************************************************************************)
(* C4.  Every notification follows a successful underlying write of the    *)
(* same store call, and a store call whose write fails notifies nothing.   *)
(***************************************************************************)
C4_NotificationOnlyAfterWrite ==
    /\ \A n \in DOMAIN notifications :
          \E j \in DOMAIN writes : /\ writes[j].by = notifications[n].by
                                   /\ writes[j].key = notifications[n].key
    /\ \A w \in Workers :
          Failed(w, "write") => /\ NotificationsBy(inv[w].id) = {}
                                /\ inv[w].out.notify = NotCalled
                                /\ inv[w].ops.notifies = 0

C4_Witness ==
    /\ Len(notifications) >= 1
    /\ \E w \in Workers : /\ Failed(w, "write")
                          /\ inv[w].accessToken.key = notifications[1].key

(***************************************************************************)
(* C5.  Each store call that returns successfully has issued exactly one   *)
(* notification, no store call issues more than one, and the notifications *)
(* of one key come in the order of the writes they follow.                 *)
(***************************************************************************)
\* the store call of the invocation has returned without error to its caller
StoreReturnedOk(w) ==
    \/ inv[w].kind = "upload" /\ IsDone(w) /\ inv[w].resp.status = StatusNoContent
    \/ IsCallback(w) /\ (inv[w].pc = "cb_update" \/ inv[w].out.update # NotCalled)

C6_ExactlyOneTerminalOutcome ==
    \A w \in Workers :
        inv[w].kind \in {"authenticate", "callback"}
            => /\ Len(inv[w].resp.headerCalls) <= 1
               /\ IsDone(w) => /\ Len(inv[w].resp.headerCalls) = 1
                               /\ inv[w].resp.status \in
                                     {StatusFound, StatusBadRequest, StatusUnauthorized,
                                      StatusInternalServerError}
               /\ inv[w].resp.status \in
                     {StatusBadRequest, StatusUnauthorized, StatusInternalServerError}
                        => IsDone(w) /\ ~inv[w].redirected

(***************************************************************************)
(* C7.  A callback whose token write succeeded and whose record update     *)
(* then failed answers 500, and its write is not taken back: the write is  *)
(* in the history and the storage still holds the latest token written at  *)
(* the key.                                                                *)
(***************************************************************************)
C7_FailedUpdateKeepsWrittenToken ==
    \A w \in Workers :
        (IsCallback(w) /\ inv[w].out.write = NoErr /\ Failed(w, "update"))
            => /\ IsDone(w)
               /\ inv[w].resp.headerCalls = <<StatusInternalServerError>>
               /\ \E j \in WritesBy(inv[w].id) : writes[j].key = inv[w].accessToken.key
               /\ storage[inv[w].accessToken.key] = LastWritten(inv[w].accessToken.key)
               /\ storage[inv[w].accessToken.key] # NoToken
               /\ ~inv[w].redirected

C7_Witness ==
    \E w \in Workers :
        /\ IsCallback(w) /\ IsDone(w) /\ inv[w].out.write = NoErr
        /\ inv[w].out.update = "Conflict"
        /\ inv[w].resp.status = StatusInternalServerError
        /\ storage[inv[w].accessToken.key] = ProviderToken(inv[w].id)

(***************************************************************************)
(* C8.  A callback whose state decodes and whose code exchange fails       *)
(* answers 400 with the error in the body, and fetches no metadata, writes *)
(* no token, updates no record.                                            *)
(***************************************************************************)
C8_FailedExchangeIsBadRequest ==
    \A w \in Workers :
        (IsCallback(w) /\ inv[w].stateErr = NoErr /\ Failed(w, "exchange"))
            => /\ IsDone(w)
               /\ inv[w].resp.headerCalls = <<StatusBadRequest>>
               /\ BodyIncludes(inv[w].resp, inv[w].out.exchange)
               /\ inv[w].ops.metadataFetches = 0
               /\ inv[w].ops.lookups = 0
               /\ inv[w].ops.stores = 0
               /\ inv[w].ops.updates = 0
               /\ WritesBy(inv[w].id) = {}

C8_Witness ==
    \E w \in Workers :
        /\ IsCallback(w) /\ IsDone(w) /\ inv[w].stateErr = NoErr
        /\ inv[w].req.state \in emitted
        /\ inv[w].out.exchange = "network error"
        /\ inv[w].resp.status = StatusBadRequest

(***************************************************************************)
(* C9.  A callback whose exchange succeeded and whose metadata fetch       *)
(* failed answers 500, writes no token and updates no record.              *)
(***************************************************************************)
C9_FailedMetadataIsServerError ==
    \A w \in Workers :
        (IsCallback(w) /\ inv[w].out.exchange = NoErr /\ Failed(w, "metadata"))
            => /\ IsDone(w)
               /\ inv[w].resp.headerCalls = <<StatusInternalServerError>>
               /\ inv[w].ops.lookups = 0
               /\ inv[w].ops.stores = 0
               /\ inv[w].ops.updates = 0
               /\ WritesBy(inv[w].id) = {}

C9_Witness ==
    \E w \in Workers :
        /\ IsCallback(w) /\ IsDone(w) /\ inv[w].out.exchange = NoErr
        /\ Failed(w, "metadata")
        /\ inv[w].resp.status = StatusInternalServerError

IsAuthenticate(w) == inv[w].kind = "authenticate"

\* the query of the URL in the Location header of a redirect to the provider
LocationQuery(resp) == resp.location[Len(resp.location)]

\* the scopes of the state the request carries
RequestedScopes(w) == DeserializeAnonymous(inv[w].req.state.payload).Scopes

\* t is the elements of scopes, in their order, with one space between neighbours
SpaceJoined(t, scopes) ==
    /\ Len(t) = IF Len(scopes) = 0 THEN 0 ELSE 2 * Len(scopes) - 1
    /\ \A i \in DOMAIN scopes : t[2 * i - 1] = scopes[i]
    /\ \A i \in 1 .. (Len(scopes) - 1) : t[2 * i] = " "

\* the base URL without one trailing "/", if it has any
TrimmedBaseUrl ==
    IF Len(config.BaseUrl) > 0 /\ config.BaseUrl[Len(config.BaseUrl)] = "/"
    THEN [i \in 1 .. (Len(config.BaseUrl) - 1) |-> config.BaseUrl[i]]
    ELSE config.BaseUrl

(***************************************************************************)
(* C11.  An Authenticate whose state does not decode as an anonymous       *)
(* state answers 400, sends no Location to the provider and encodes no     *)
(* authenticated state.                                                    *)
(***************************************************************************)
C11_AuthenticateRejectsUndecodableState ==
    \A w \in Workers :
        (IsAuthenticate(w) /\ inv[w].stateErr # NoErr)
            => /\ IsDone(w)
               /\ inv[w].resp.headerCalls = <<StatusBadRequest>>
               /\ inv[w].resp.status = StatusBadRequest
               /\ inv[w].resp.location = <<>>
               /\ ~inv[w].redirected
               /\ inv[w].out.encode = NotCalled

C11_Witness ==
    \E w \in Workers :
        /\ IsAuthenticate(w) /\ IsDone(w)
        /\ inv[w].stateErr = "InvalidSignature"
        /\ inv[w].req.state.sig.flipped # {}
        /\ inv[w].resp.status = StatusBadRequest

(***************************************************************************)
(* C12.  An Authenticate with a valid state and no caller credential       *)
(* answers 401 and sends no redirect to the provider.  The Authenticate of *)
(* the code looks at no credential: this is what the sentence asks for.    *)
(***************************************************************************)
C12_AuthenticateWithoutCredentialIsUnauthorized ==
    \A w \in Workers :
        (IsAuthenticate(w) /\ inv[w].stateErr = NoErr /\ inv[w].req.credential = "")
            => /\ IsDone(w)
               /\ inv[w].resp.status = StatusUnauthorized
               /\ inv[w].resp.location = <<>>
               /\ ~inv[w].redirected

(***************************************************************************)
(* C13.  An Authenticate whose encoding of the authenticated state fails   *)
(* answers 500.                                                            *)
(***************************************************************************)
C13_EncodeFailureIsServerError ==
    \A w \in Workers :
        (IsAuthenticate(w) /\ Failed(w, "encode"))
            => /\ IsDone(w)
               /\ inv[w].resp.status = StatusInternalServerError
               /\ inv[w].resp.headerCalls[1] = StatusInternalServerError

C13_Witness ==
    \E w \in Workers :
        /\ IsAuthenticate(w) /\ IsDone(w) /\ inv[w].stateErr = NoErr
        /\ inv[w].out.encode = "EncodingError"
        /\ inv[w].resp.status = StatusInternalServerError

C15_RedirectUriIsBaseUrlAndCallbackPath ==
    \A w \in Workers :
        /\ (IsAuthenticate(w) /\ inv[w].resp.location # <<>>)
              => LocationQuery(inv[w].resp).redirect_uri
                    = config.BaseUrl \o <<"/", ToLower(config.ServiceProviderType),
                                          "/", "callback">>
        /\ (IsCallback(w) /\ inv[w].out.exchange # NotCalled)
              => inv[w].exchangeRequest.redirect_uri
                    = config.BaseUrl \o <<"/", ToLower(config.ServiceProviderType),
                                          "/", "callback">>

(***************************************************************************)
(* C15, amended.  The redirect_uri sent to the provider, at Authenticate   *)
(* and at the code exchange, is the base URL without one trailing "/",     *)
(* followed by "/", the provider type in lower case and "/callback".       *)
(***************************************************************************)
C15_RedirectUriIsTrimmedBaseUrlAndCallbackPath ==
    \A w \in Workers :
        /\ (IsAuthenticate(w) /\ inv[w].resp.location # <<>>)
              => LocationQuery(inv[w].resp).redirect_uri
                    = TrimmedBaseUrl \o <<"/", ToLower(config.ServiceProviderType),
                                          "/", "callback">>
        /\ (IsCallback(w) /\ inv[w].out.exchange # NotCalled)
              => inv[w].exchangeRequest.redirect_uri
                    = TrimmedBaseUrl \o <<"/", ToLower(config.ServiceProviderType),
                                          "/", "callback">>

\* the callback of a flow whose Authenticate sent the same redirect_uri
C15_Witness ==
    \E v \in Workers :
        /\ config.BaseUrl = <<"https://spi", "/">>
        /\ IsCallback(v) /\ inv[v].out.exchange = NoErr
        /\ inv[v].req.state \in emitted
        /\ inv[v].exchangeRequest.redirect_uri
              = <<"https://spi", "/", "quay", "/", "callback">>

(***************************************************************************)
(* C16.  As the claim reads: a fully successful Callback answers 302 with  *)
(* the redirect_after_login parameter itself as Location when the          *)
(* parameter is not empty, and with the default callback-success location  *)
(* of the base URL otherwise.                                              *)
(***************************************************************************)
C16_SuccessRedirectsToParameterItself ==
    \A w \in Workers :
        (IsCallback(w) /\ IsDone(w) /\ inv[w].stateErr = NoErr /\ NothingFailed(w))
            => /\ inv[w].resp.headerCalls = <<StatusFound>>
               /\ inv[w].resp.location =
                     IF inv[w].req.redirect_after_login # <<>>
                     THEN inv[w].req.redirect_after_login
                     ELSE TrimmedBaseUrl \o <<"/", "callback_success">>

(***************************************************************************)
(* C16, amended.  A fully successful Callback answers 302; its Location is *)
(* the redirect_after_login parameter itself when the parameter names a    *)
(* scheme and host, the parameter made an absolute path under the          *)
(* directory of the callback's request path when it names neither and does *)
(* not start with "/", and the default callback-success location of the    *)
(* base URL when the parameter is empty.                                   *)
(***************************************************************************)
C16_SuccessRedirectsToResolvedParameter ==
    \A w \in Workers :
        (IsCallback(w) /\ IsDone(w) /\ inv[w].stateErr = NoErr /\ NothingFailed(w))
            => /\ inv[w].resp.headerCalls = <<StatusFound>>
               /\ LET par == inv[w].req.redirect_after_login
                  IN  inv[w].resp.location =
                        IF par = <<>> THEN TrimmedBaseUrl \o <<"/", "callback_success">>
                        ELSE IF par[1] \in Origins THEN par
                        ELSE <<"/", ToLower(config.ServiceProviderType), "/">> \o par

C16_Witness ==
    \E w \in Workers :
        /\ IsCallback(w) /\ IsDone(w) /\ inv[w].stateErr = NoErr /\ NothingFailed(w)
        /\ inv[w].out.update = NoErr
        /\ inv[w].req.redirect_after_login = <<"done">>
        /\ inv[w].resp.location = <<"/", "github", "/", "done">>

(***************************************************************************)
(* What the properties of the state codec read off a state.                *)
(***************************************************************************)
\* the flow states the codec is tried on at this moment: for every owner key,
\* issued at any moment up to now
AnonymousStates == {AnonymousState(k, t) : k \in Keys, t \in 0 .. now}

AuthenticatedStates ==
    {AuthenticatedState(a, id, h) :
        a \in AnonymousStates, id \in {EmptyIdentity, AliceIdentity},
        h \in {"", "Bearer alice-token"}}

\* the state was issued no longer ago than a flow may last
Fresh(a) == now - a.IssuedAt <= MaxFlowAge

\* the handler took the state parameter as far as the decode step and no further
StoppedAtDecode(w) ==
    /\ IsDone(w)
    /\ inv[w].resp.headerCalls = <<StatusBadRequest>>
    /\ inv[w].resp.location = <<>>
    /\ ~inv[w].redirected
    /\ inv[w].ops = NoOps
    /\ inv[w].out = NoOutcomes
    /\ WritesBy(inv[w].id) = {}

\* the signature of the state the request carries is the one the controller's
\* secret gives
SignatureVerifies(w) ==
    inv[w].req.state.sig
        = Sign(JwtSigningSecret, inv[w].req.state.typ, inv[w].req.state.payload)

\* the variant of the state the request carries is the one the handler decodes
ExpectedVariant(w) ==
    inv[w].req.state.typ = IF IsCallback(w) THEN "authenticated" ELSE "anonymous"

C18_VariantsAreNotConfused ==
    /\ \A a \in AnonymousStates :
          ParseAuthenticated(JwtSigningSecret, EncodeAnonymous(JwtSigningSecret, a), now)
              = [state |-> NoAuthenticatedState, err |-> "VariantMismatch"]
    /\ \A s \in AuthenticatedStates :
          ParseAnonymous(JwtSigningSecret, EncodeAuthenticated(JwtSigningSecret, s), now)
              = [state |-> NoAnonymousState, err |-> "VariantMismatch"]
    /\ \A w \in Workers :
          ((IsCallback(w) \/ IsAuthenticate(w)) /\ ~ExpectedVariant(w))
              => inv[w].stateErr # NoErr /\ StoppedAtDecode(w)

\* an Authenticate given a state that an earlier Authenticate emitted
C18_Witness ==
    \E w \in Workers :
        /\ IsAuthenticate(w) /\ IsDone(w)
        /\ inv[w].req.state \in emitted
        /\ inv[w].stateErr = "VariantMismatch"
        /\ inv[w].resp.status = StatusBadRequest

(***************************************************************************)
(* C19.  A validly signed envelope with any byte of its signature flipped  *)
(* fails to decode with InvalidSignature, and a handler given a state      *)
(* whose signature was tampered with stops at the decode step.             *)
(***************************************************************************)
C19_TamperedSignatureIsRejected ==
    /\ \A a \in AnonymousStates, b \in 1 .. 2 :
          DecodeError(JwtSigningSecret, "anonymous",
                      FlipSignatureByte(EncodeAnonymous(JwtSigningSecret, a), b), now)
              = "InvalidSignature"
    /\ \A e \in emitted, b \in 1 .. 2 :
          DecodeError(JwtSigningSecret, "authenticated", FlipSignatureByte(e, b), now)
              = "InvalidSignature"
    /\ \A w \in Workers :
          ((IsCallback(w) \/ IsAuthenticate(w)) /\ inv[w].req.state.sig.flipped # {})
              => inv[w].stateErr = "InvalidSignature" /\ StoppedAtDecode(w)

\* a Callback given a state Authenticate emitted, its signature tampered with
C19_Witness ==
    \E w \in Workers :
        /\ IsCallback(w) /\ IsDone(w)
        /\ inv[w].req.state.sig.flipped # {}
        /\ FlipSignatureByte(inv[w].req.state, 2) \in emitted
        /\ inv[w].stateErr = "InvalidSignature"
        /\ inv[w].resp.status = StatusBadRequest

Accepted(w) ==
    IsCallback(w) /\ (inv[w].ops # NoOps \/ inv[w].out # NoOutcomes
                        \/ inv[w].pc \notin {"idle", "done"})

\* the envelopes a browser holds: those Authenticate handed to it and the
\* anonymous ones the operator has just minted for it
HeldByBrowser ==
    emitted \cup {EncodeAnonymous(JwtSigningSecret, AnonymousState(k, now)) : k \in Keys}

\* the authenticated payloads a browser has a reason to put forward: the
\* emitted ones, as they are and aimed at the other token, and the anonymous
\* ones it holds with an identity and a credential written into them
ForgedPayloads ==
    {e.payload : e \in emitted}
        \cup {Retarget(e).payload : e \in emitted}
        \cup {SerializeAuthenticated(
                  AuthenticatedState(AnonymousState(k, now), AliceIdentity,
                                     "Bearer alice-token")) : k \in Keys}

\* the envelopes a browser can put together from those it holds without the
\* secret: such a payload under a signature it has seen, whole or with a byte
\* changed, or under one it made over that payload with a secret of its own
Forgeable ==
    UNION {{[typ |-> "authenticated", payload |-> p, sig |-> g] :
                g \in {e.sig : e \in HeldByBrowser}
                        \cup {FlipSignatureByte(e, 1).sig : e \in emitted}
                        \cup {Sign(OtherSecret, "authenticated", p)}} :
            p \in ForgedPayloads}

(***************************************************************************)
(* C21.  Every state a Callback accepts was emitted earlier by Authenticate*)
(* under the controller's signing secret: of the envelopes a browser can   *)
(* put together from those it was handed only the emitted ones decode, and *)
(* a state signed with another secret is rejected at the decode step.      *)
(***************************************************************************)
C21_AcceptedStatesWereEmitted ==
    /\ \A e \in emitted : e.sig = Sign(JwtSigningSecret, "authenticated", e.payload)
    /\ \A f \in Forgeable :
          DecodeError(JwtSigningSecret, "authenticated", f, now) = NoErr => f \in emitted
    /\ \A w \in Workers :
          Accepted(w) => /\ inv[w].req.state \in emitted
                         /\ inv[w].stateErr = NoErr
    /\ \A w \in Workers :
          ((IsCallback(w) \/ IsAuthenticate(w)) /\ inv[w].req.state.sig.key = OtherSecret)
              => inv[w].stateErr = "InvalidSignature" /\ StoppedAtDecode(w)

\* a Callback that turned down a state signed with the rotated secret, after
\* Authenticate had emitted one under the controller's secret
C21_Witness ==
    \E w \in Workers :
        /\ IsCallback(w) /\ IsDone(w)
        /\ inv[w].req.state.sig.key = OtherSecret
        /\ inv[w].req.state.typ = "authenticated"
        /\ inv[w].resp.status = StatusBadRequest
        /\ emitted # {}

(***************************************************************************)
(* What the properties of the Direct Upload Path read off a state.         *)
(***************************************************************************)
IsUpload(w) == inv[w].kind = "upload"

\* the preparations a Handle makes before it calls the store, in their order
UploadPreparations == <<"auth", "lookup", "body">>

\* the request is addressed to an existing record, carries a credential and a
\* well-formed body
WellFormedUpload(w) ==
    /\ IsUpload(w)
    /\ inv[w].req.credential # ""
    /\ inv[w].req.bodyOk
    /\ inv[w].req.key \in Keys /\ records[inv[w].req.key].exists

\* Handle made one store call, for the record the path names and with the
\* token the body decodes to
StoredOnceAsAsked(w) ==
    /\ inv[w].ops.stores = 1
    /\ inv[w].accessToken.key = inv[w].req.key
    /\ inv[w].token = UploadedToken
    /\ \A j \in WritesBy(inv[w].id) :
          writes[j].key = inv[w].req.key /\ writes[j].token = UploadedToken
    /\ Cardinality(WritesBy(inv[w].id)) <= 1

(***************************************************************************)
(* C22.  A Direct Upload calls the token store only after the credential   *)
(* context, the lookup of the owner record and the decoding of the body    *)
(* have succeeded, in this order; when one of them fails Handle returns    *)
(* that failure, nothing after it is attempted and the storage receives no *)
(* write; a missing owner record is a not-found failure.                   *)
(***************************************************************************)
C22_UploadStoresOnlyAfterPreparations ==
    \A w \in Workers :
        IsUpload(w) =>
            /\ inv[w].ops.stores > 0 =>
                  \A n \in 1 .. 3 : inv[w].out[UploadPreparations[n]] = NoErr
            /\ \A n \in 2 .. 3 :
                  inv[w].out[UploadPreparations[n]] # NotCalled
                      => inv[w].out[UploadPreparations[n - 1]] = NoErr
            /\ \A n \in 1 .. 3 :
                  Failed(w, UploadPreparations[n]) =>
                      /\ IsDone(w)
                      /\ inv[w].returned = inv[w].out[UploadPreparations[n]]
                      /\ inv[w].ops.stores = 0
                      /\ WritesBy(inv[w].id) = {}
                      /\ NotificationsBy(inv[w].id) = {}
            /\ (inv[w].out.lookup # NotCalled /\ ~records[inv[w].req.key].exists)
                  => /\ inv[w].returned = "NotFound"
                     /\ inv[w].resp.status = StatusNotFound

\* an upload with a well-formed body to a record that does not exist, and an
\* upload of a malformed body to one that does
C22_Witness ==
    \E w \in Workers, v \in Workers :
        /\ IsUpload(w) /\ IsDone(w) /\ inv[w].req.bodyOk
        /\ inv[w].req.key = [Name |-> "t2", Namespace |-> "ns"]
        /\ inv[w].returned = "NotFound" /\ writes = <<>>
        /\ IsUpload(v) /\ IsDone(v) /\ inv[v].out.body = "malformed JSON"

(***************************************************************************)
(* C23.  As the claim reads: a Direct Upload addressed to an existing      *)
(* owner record, with a well-formed body and a credential, succeeds with   *)
(* exactly one store call, for that record and with the decoded token.     *)
(***************************************************************************)
C23_WellFormedUploadSucceeds ==
    \A w \in Workers :
        (WellFormedUpload(w) /\ IsDone(w))
            => inv[w].returned = NoErr /\ StoredOnceAsAsked(w)

(***************************************************************************)
(* C23, amended.  A Direct Upload addressed to an existing owner record,   *)
(* with a well-formed body and a credential, makes exactly one store call, *)
(* for the record the path names and with the token the body decodes to,   *)
(* and returns what that call returns: it succeeds exactly when the store  *)
(* call does, and then the storage holds the token.  The owner record      *)
(* still exists afterwards.                                                *)
(***************************************************************************)
C23_WellFormedUploadReturnsWhatStoreReturns ==
    \A w \in Workers :
        (WellFormedUpload(w) /\ IsDone(w)) =>
            /\ StoredOnceAsAsked(w)
            /\ records[inv[w].req.key].exists
            /\ inv[w].returned = IF Failed(w, "write") THEN inv[w].out.write
                                 ELSE IF Failed(w, "notify") THEN inv[w].out.notify
                                 ELSE NoErr
            /\ inv[w].returned = NoErr
                  => /\ Cardinality(WritesBy(inv[w].id)) = 1
                     /\ inv[w].out.write = NoErr

\* a well-formed upload that succeeded, and one whose store call failed
C23_Witness ==
    \E w \in Workers, v \in Workers :
        /\ WellFormedUpload(w) /\ IsDone(w) /\ inv[w].returned = NoErr
        /\ storage[inv[w].req.key] = UploadedToken
        /\ WellFormedUpload(v) /\ IsDone(v) /\ inv[v].returned = "storage unavailable"

(***************************************************************************)
(* C24.  The Direct Upload endpoint answers 204 exactly when Handle        *)
(* succeeded; when Handle failed it answers with the status code the       *)
(* failure carries when it is an error of the cluster API, and with 500    *)
(* otherwise.                                                              *)
(***************************************************************************)
C24_UploadStatusReflectsResult ==
    \A w \in Workers :
        (IsUpload(w) /\ IsDone(w)) =>
            /\ inv[w].returned # NotCalled
            /\ inv[w].resp.headerCalls =
                  <<IF inv[w].returned = NoErr THEN StatusNoContent
                    ELSE IF inv[w].returned = "NotFound" THEN StatusNotFound
                    ELSE StatusInternalServerError>>
            /\ inv[w].resp.status = StatusNoContent <=> inv[w].returned = NoErr
            /\ inv[w].resp.body = <<>>

\* an upload answered 404 for the missing record and one answered 500 for a
\* failed notification
C24_Witness ==
    \E w \in Workers, v \in Workers :
        /\ IsUpload(w) /\ IsDone(w) /\ inv[w].resp.status = StatusNotFound
        /\ IsUpload(v) /\ IsDone(v) /\ inv[v].returned = "notification failed"
        /\ inv[v].resp.status = StatusInternalServerError

(***************************************************************************)
(* What the properties of the start-up read off a state.                   *)
(***************************************************************************)
BuiltInTypes == {ServiceProviderTypeGitHub, ServiceProviderTypeQuay}

\* the endpoint pair and the metadata retrieval of a built-in provider type
EndpointOf(spType) ==
    IF spType = ServiceProviderTypeGitHub THEN GitHubEndpoint ELSE quayEndpoint

RetrievalOf(spType) ==
    IF spType = ServiceProviderTypeGitHub THEN "retrieveGitHubUserDetails"
    ELSE "retrieveQuayUserDetails"

\* the call returned a controller of the provider type, bound to the type's
\* endpoint pair and metadata retrieval, and no error
YieldsControllerOf(c) ==
    /\ c.returned.err = NoErr
    /\ c.returned.controller.ServiceProviderType = c.spType
    /\ c.returned.controller.Endpoint = EndpointOf(c.spType)
    /\ c.returned.controller.RetrieveUserMetadata = RetrievalOf(c.spType)

\* the call returned an error and no controller
YieldsNoController(c) ==
    c.returned.err # NoErr /\ c.returned.controller = NoController

CallbackSteps == <<"exchange", "metadata", "lookup", "write", "notify", "update">>

\* how often the invocation made each of its outbound calls
Attempts(w) ==
    [exchange |-> inv[w].ops.exchanges, metadata |-> inv[w].ops.metadataFetches,
     lookup |-> inv[w].ops.lookups, write |-> inv[w].ops.stores,
     notify |-> IF inv[w].out.notify = NotCalled THEN 0 ELSE 1,
     update |-> inv[w].ops.updates]

(***************************************************************************)
(* C26.  Within one Callback each fallible step (code exchange, metadata   *)
(* fetch, owner lookup, token store, status update) is attempted at most   *)
(* once, and in this order; after one of them failed the invocation makes  *)
(* no further outbound call or write and ends with an error response.      *)
(***************************************************************************)
C26_CallbackStepsAreNotRetried ==
    \A w \in Workers :
        IsCallback(w) =>
            /\ \A n \in DOMAIN CallbackSteps :
                  /\ Attempts(w)[CallbackSteps[n]] <= 1
                  /\ Attempts(w)[CallbackSteps[n]] = 1
                        <=> inv[w].out[CallbackSteps[n]] # NotCalled
            /\ Cardinality(WritesBy(inv[w].id)) <= 1
            /\ \A n \in DOMAIN CallbackSteps :
                  Failed(w, CallbackSteps[n]) =>
                      /\ IsDone(w)
                      /\ \A m \in DOMAIN CallbackSteps :
                            m > n => /\ inv[w].out[CallbackSteps[m]] = NotCalled
                                     /\ Attempts(w)[CallbackSteps[m]] = 0
                      /\ n <= 4 => WritesBy(inv[w].id) = {}
                      /\ inv[w].resp.headerCalls \in
                            {<<StatusBadRequest>>, <<StatusInternalServerError>>}
                      /\ ~inv[w].redirected

\* a Callback whose lookup of the owner record failed, after a successful
\* exchange and metadata fetch
C26_Witness ==
    \E w \in Workers :
        /\ IsCallback(w) /\ IsDone(w)
        /\ inv[w].out.exchange = NoErr /\ inv[w].out.metadata = NoErr
        /\ inv[w].out.lookup = "NotFound"
        /\ inv[w].ops.lookups = 1
        /\ inv[w].resp.status = StatusInternalServerError

(***************************************************************************)
(* What the properties of concurrent store calls read off a state.         *)
(***************************************************************************)
\* the workers whose store call on owner key k is in flight: the underlying
\* write was started and the call has not returned
StoringAt(k) ==
    {w \in Workers : inv[w].pc = "store_notify" /\ inv[w].accessToken.key = k}

\* the step makes an underlying write at owner key k
WritesAt(k) ==
    /\ Len(writes') = Len(writes) + 1
    /\ writes'[Len(writes')].key = k

AuthorizationHeaderOf(cred) == IF cred = "alice-token" THEN "Bearer alice-token" ELSE ""

\* the authenticated state an Authenticate handed to the browser in its redirect
EmittedState(w) == DeserializeAuthenticated(LocationQuery(inv[w].resp).state.payload)

(***************************************************************************)
(* C28.  The authenticated state Authenticate emits carries the identity   *)
(* facts (name, unique id, groups, extra attributes) of the caller and the *)
(* raw bearer credential presented on that request.                        *)
(* The code captures neither: this is what the sentence asks for.          *)
(***************************************************************************)
C28_EmittedStateCarriesCallerIdentity ==
    \A w \in Workers :
        (IsAuthenticate(w) /\ inv[w].redirected /\ inv[w].out.encode = NoErr)
            => /\ EmittedState(w).KubernetesIdentity = IdentityOf(inv[w].req.credential)
               /\ EmittedState(w).AuthorizationHeader
                      = AuthorizationHeaderOf(inv[w].req.credential)

(***************************************************************************)
(* What the properties of a replayed state read off a state.               *)
(***************************************************************************)
\* the Callback ran to its end with every outbound call successful
RanThrough(w) ==
    /\ IsCallback(w) /\ IsDone(w)
    /\ \A n \in DOMAIN CallbackSteps : inv[w].out[CallbackSteps[n]] = NoErr

\* v is a Callback given the state that the Callback w, which arrived before
\* it, ran through with
Replays(v, w) ==
    /\ RanThrough(w) /\ IsCallback(v)
    /\ inv[v].id > inv[w].id
    /\ inv[v].req.state = inv[w].req.state

(***************************************************************************)
(* C29.  A Callback that replays a state already used by a successful      *)
(* Callback is processed like the first: it is taken to the code exchange, *)
(* and when the provider accepts the code again and the later calls        *)
(* succeed it writes the token to the storage once more and answers 302    *)
(* as the first did.                                                       *)
(***************************************************************************)
C29_ReplayedStateIsProcessedAgain ==
    \A w \in Workers, v \in Workers :
        Replays(v, w) =>
            /\ inv[v].stateErr = inv[w].stateErr
            /\ inv[v].ops.exchanges = 1
            /\ (IsDone(v) /\ inv[v].out.exchange = NoErr) => inv[v].ops.metadataFetches = 1
            /\ RanThrough(v) =>
                  /\ inv[v].resp.headerCalls = <<StatusFound>>
                  /\ inv[v].req.redirect_after_login = inv[w].req.redirect_after_login
                        => inv[v].resp = inv[w].resp
                  /\ Cardinality(WritesBy(inv[v].id)) = 1
                  /\ Cardinality(WritesBy(inv[w].id)) = 1
                  /\ \A j \in WritesBy(inv[v].id) :
                        /\ writes[j].key = RequestedKey(w)
                        /\ writes[j].token = ApiToken(ProviderToken(inv[v].id))
                        /\ j \notin WritesBy(inv[w].id)

\* two Callbacks given the same state one after the other, both answered 302,
\* the storage written twice
C29_Witness ==
    \E w \in Workers, v \in Workers :
        /\ Replays(v, w) /\ RanThrough(v)
        /\ inv[v].resp.status = StatusFound /\ inv[w].resp.status = StatusFound
        /\ Len(writes) = 2
        /\ storage[RequestedKey(w)] = ApiToken(ProviderToken(inv[v].id))

(***************************************************************************)
(* C30                                                                     *)
(***************************************************************************)
\* the credential a Login presented: the k8s_token form field, or the bearer
\* token of the Authorization header when the form field is empty
PresentedCredential(c) ==
    IF c.form # "" THEN c.form ELSE ExtractTokenFromAuthorizationHeader(c.header)

\* call c is a Login in session s that presented a credential
CredentialedLogin(c, s) ==
    c.op = "Login" /\ c.session = s /\ PresentedCredential(c) # ""

RECURSIVE LastCredential(_, _)
\* the credential of the latest credentialed Login in session s among the
\* first n calls, empty when there is none
LastCredential(s, n) ==
    IF n = 0 THEN ""
    ELSE IF CredentialedLogin(calls[n], s) THEN PresentedCredential(calls[n])
    ELSE LastCredential(s, n - 1)

AnonymousPartOf(env) == DeserializeAnonymous(SubSeq(env.payload, 1, 6))

\* the owner record an envelope of either variant names
TargetOf(env) ==
    [Name |-> AnonymousPartOf(env).TokenName,
     Namespace |-> AnonymousPartOf(env).TokenNamespace]

(***************************************************************************)
(* C31.  The flow's target is preserved across the round trip: a state     *)
(* Authenticate emits embeds every field of the anonymous state it decoded *)
(* from its request, unchanged; and the owner record a Callback looks up,  *)
(* writes the token for and updates is the one named by the state it was   *)
(* given, which is the one of the anonymous state given to the             *)
(* Authenticate that emitted it, never another record.                     *)
(***************************************************************************)
C31_FlowTargetIsPreserved ==
    /\ [](/\ \A w \in Workers :
                (IsAuthenticate(w) /\ inv[w].redirected /\ inv[w].out.encode = NoErr)
                    => /\ LocationQuery(inv[w].resp).state \in emitted
                       /\ EmittedState(w).AnonymousOAuthState
                              = DeserializeAnonymous(inv[w].req.state.payload)
          /\ \A w \in Workers :
                (IsCallback(w) /\ inv[w].stateErr = NoErr)
                    => /\ inv[w].req.state \in emitted
                       /\ inv[w].accessToken.key \in {NoKey, TargetOf(inv[w].req.state)}
                       /\ \A j \in WritesBy(inv[w].id) :
                              writes[j].key = TargetOf(inv[w].req.state))
    /\ [][/\ \A e \in emitted' \ emitted :
                \E w \in Workers :
                    /\ inv'[w].kind = "authenticate" /\ inv'[w].stateErr = NoErr
                    /\ e.typ = "authenticated"
                    /\ AnonymousPartOf(e) = AnonymousPartOf(inv'[w].req.state)
          /\ \A k \in Keys :
                (records'[k] # records[k] /\ extOps' = extOps)
                    => \E w \in Workers :
                          /\ IsCallback(w) /\ inv[w].pc = "cb_update"
                          /\ inv'[w].ops.updated = inv[w].ops.updated + 1
                          /\ inv[w].req.state \in emitted
                          /\ TargetOf(inv[w].req.state) = k]_vars

\* a Callback that looked up, wrote and updated the record of the first owner
\* key, given a state an Authenticate had emitted for that key
C31_Witness ==
    \E w \in Workers :
        /\ RanThrough(w)
        /\ inv[w].req.state \in emitted
        /\ TargetOf(inv[w].req.state) = [Name |-> "t1", Namespace |-> "ns"]
        /\ inv[w].accessToken.key = TargetOf(inv[w].req.state)
        /\ WritesBy(inv[w].id) # {}
        /\ records[TargetOf(inv[w].req.state)].metadata = inv[w].metadata
        /\ inv[w].metadata # NoMetadata

(***************************************************************************)
(* C32.  Callback attaches the TokenMetadata to the owner record only      *)
(* after the token store of the same invocation succeeded: once the store  *)
(* call failed, in its write or in its notification, the response is 500   *)
(* and the invocation never updates the record; and an invocation that     *)
(* called the update had its token written and announced before.           *)
(***************************************************************************)
C32_MetadataAttachedOnlyAfterStore ==
    \A w \in Workers :
        IsCallback(w)
            => /\ (Failed(w, "write") \/ Failed(w, "notify"))
                    => /\ IsDone(w)
                       /\ inv[w].resp.status = StatusInternalServerError
                       /\ inv[w].resp.headerCalls = <<StatusInternalServerError>>
                       /\ inv[w].ops.updates = 0
                       /\ inv[w].out.update = NotCalled
                       /\ ~inv[w].redirected
               /\ (inv[w].ops.updates > 0 \/ inv[w].pc = "cb_update")
                    => /\ inv[w].out.write = NoErr
                       /\ inv[w].out.notify = NoErr
                       /\ Cardinality(WritesBy(inv[w].id)) = 1
                       /\ Cardinality(NotificationsBy(inv[w].id)) = 1

\* a Callback whose token write failed: it answered 500 and the record it
\* had looked up still carries no metadata
C32_Witness ==
    \E w \in Workers :
        /\ IsCallback(w) /\ IsDone(w) /\ Failed(w, "write")
        /\ inv[w].resp.status = StatusInternalServerError
        /\ inv[w].accessToken.key \in Keys
        /\ records[inv[w].accessToken.key].metadata = NoMetadata
        /\ storage[inv[w].accessToken.key] = NoToken

LostRace(w) ==
    /\ IsCallback(w) /\ inv[w].pc = "cb_update"
    /\ records[inv[w].accessToken.key].resourceVersion # inv[w].accessToken.resourceVersion

\* the latest write at the key of the Callback is its own
WroteLast(w) ==
    \E j \in WritesBy(inv[w].id) :
        \A l \in DOMAIN writes : writes[l].key = writes[j].key => l <= j

(***************************************************************************)
(* C34.  When the owner record is modified between the lookup and the      *)
(* update of a Callback, the token that Callback wrote stays in the        *)
(* storage (until a later store at the key replaces it), the Callback      *)
(* answers 500 and leaves the record as it found it; and a Callback        *)
(* answers 302 only when its update attached the metadata to the record.   *)
(***************************************************************************)
C34_LostUpdateNeverReportsSuccess ==
    /\ [](\A w \in Workers :
            IsCallback(w)
                => /\ inv[w].out.update = "Conflict"
                        => /\ IsDone(w)
                           /\ inv[w].resp.headerCalls = <<StatusInternalServerError>>
                           /\ ~inv[w].redirected
                           /\ inv[w].ops.updated = 0
                           /\ WritesBy(inv[w].id) # {}
                           /\ storage[inv[w].accessToken.key]
                                  = LastWritten(inv[w].accessToken.key)
                           /\ WroteLast(w)
                                  => storage[inv[w].accessToken.key]
                                         = ApiToken(ProviderToken(inv[w].id))
                   /\ (inv[w].resp.status = StatusFound \/ inv[w].redirected)
                        => inv[w].ops.updated = 1 /\ inv[w].out.update = NoErr)
    /\ [][\A w \in Workers :
            /\ (LostRace(w) /\ inv'[w] # inv[w])
                    => /\ inv'[w].out.update = "Conflict"
                       /\ inv'[w].resp.status = StatusInternalServerError
                       /\ records' = records
                       /\ storage' = storage
            /\ (IsCallback(w) /\ inv'[w].id = inv[w].id
                    /\ inv[w].resp.status # StatusFound
                    /\ inv'[w].resp.status = StatusFound)
                    => /\ ~LostRace(w)
                       /\ records'[inv[w].accessToken.key].metadata = inv[w].metadata
                       /\ inv[w].metadata # NoMetadata]_vars

\* a single Callback, whose record the external controller touched between
\* its lookup and its update: it answered 500 and its token is in the storage
C34_Witness ==
    \E w \in Workers :
        /\ IsCallback(w) /\ IsDone(w)
        /\ extOps = 1
        /\ \A v \in Workers \ {w} : inv[v].kind = "none"
        /\ inv[w].out.update = "Conflict"
        /\ inv[w].resp.status = StatusInternalServerError
        /\ storage[inv[w].accessToken.key] = ApiToken(ProviderToken(inv[w].id))
        /\ records[inv[w].accessToken.key].metadata = NoMetadata

(***************************************************************************)
(* What the properties of two Callbacks for one record read off a state.   *)
(***************************************************************************)
\* v and w are two Callbacks that ran at the same time for the record at k,
\* and both have finished
FinishedTogether(v, w, k) ==
    /\ v # w
    /\ IsCallback(v) /\ IsDone(v) /\ inv[v].accessToken.key = k
    /\ IsCallback(w) /\ IsDone(w) /\ inv[w].accessToken.key = k

\* the request whose write put the token that the storage holds at k
TokenBy(k) ==
    LET S == {j \in DOMAIN writes : writes[j].key = k}
    IN  writes[CHOOSE j \in S : \A l \in S : l <= j].by

\* the Callback among v and w whose update put the metadata the record holds:
\* of those whose update went through, the one that read the later version
MetadataBy(v, w) ==
    LET U == {u \in {v, w} : inv[u].ops.updated = 1}
    IN  inv[CHOOSE u \in U :
                \A x \in U : inv[x].accessToken.resourceVersion
                                <= inv[u].accessToken.resourceVersion].id

(***************************************************************************)
(* C35.  When two Callbacks that ran concurrently for the same owner       *)
(* record have both finished, the token the storage holds and the          *)
(* TokenMetadata on the record come from the same Callback.                *)
(* The code lets the store of one and the update of the other win: this is *)
(* what the sentence asks for.                                             *)
(***************************************************************************)
C35_TokenAndMetadataFromSameCallback ==
    \A v, w \in Workers, k \in Keys :
        (/\ FinishedTogether(v, w, k)
         /\ \E j \in DOMAIN writes : writes[j].key = k
         /\ \E u \in {v, w} : inv[u].ops.updated = 1)
            => TokenBy(k) = MetadataBy(v, w)

(***************************************************************************)
(* C36.  The Expiry a Callback writes to the storage equals the expiry of  *)
(* the token the exchange returned, in unix seconds, for every token the   *)
(* exchange can return, one that carries no expiry included: the           *)
(* conversion to the unsigned field never wraps around.                    *)
(* uint64(token.Expiry.Unix()) wraps for the zero time of a token without  *)
(* expiry: this is what the sentence asks for.                             *)
(***************************************************************************)
C36_WrittenExpiryIsTokenExpiry ==
    \A w \in Workers :
        IsCallback(w)
            => \A j \in WritesBy(inv[w].id) :
                  writes[j].token.Expiry = inv[w].finish.token.Expiry

(***************************************************************************)
(* What the properties of the start-up read off a state.                   *)
(***************************************************************************)
\* the n-th configured provider was turned to and its controller was built
Built(n) ==
    n \in DOMAIN router.constructed /\ router.constructed[n].returned.err = NoErr

\* the n-th configured provider was turned to and building its controller failed
FailedToBuild(n) ==
    n \in DOMAIN router.constructed /\ router.constructed[n].returned.err # NoErr

(***************************************************************************)
(* C37.  A configured provider whose controller could not be constructed   *)
(* gets no authenticate and no callback route and does not bring the       *)
(* start-up down: start goes on to the other providers, whose routes are   *)
(* registered, and every provider route that is registered belongs to a    *)
(* provider whose controller was constructed.                              *)
(* start logs the error and then uses the nil controller: this is what the *)
(* sentence asks for.                                                      *)
(***************************************************************************)
C37_FailedProviderIsSkipped ==
    /\ router.pc # "panicked"
    /\ \A n \in DOMAIN router.providers :
          FailedToBuild(n) => router.next > n
    /\ \A n \in DOMAIN router.providers :
          (Built(n) /\ router.next > n)
              => ProviderRoutes(router.providers[n]) \subseteq router.routes
    /\ \A t \in ServiceProviderTypes :
          (ProviderRoutes(t) \cap router.routes # {})
              => \E n \in DOMAIN router.providers : router.providers[n] = t /\ Built(n)

(***************************************************************************)
(* What the properties of the metadata retrieval read off a state.         *)
(***************************************************************************)
\* the response is a 200 whose body carries the login and the id
CarriesUser(response) ==
    /\ response.err = NoErr /\ response.status = StatusOK /\ response.parsable
    /\ response.login.type = "string" /\ response.login.str # ""
    /\ response.id.type = "number"

(***************************************************************************)
(* C38.  The retrieval of the user details from GitHub sends the fresh     *)
(* access token as the bearer credential and is total over the responses:  *)
(* it returns the metadata with the user id and the login for a 200 that   *)
(* carries both, and an error, never a fault and never partial metadata,   *)
(* for any other response (not a 200, a body that does not parse, a body   *)
(* without the login or without the id).                                   *)
(* The code asserts the types of the members unchecked and faults where    *)
(* the login is missing: this is what the sentence asks for.               *)
(***************************************************************************)
C38_UserDetailsRetrievalIsTotal ==
    \A n \in DOMAIN fetches :
        LET f == fetches[n]
        IN  /\ f.authorization = <<"Bearer ">> \o f.token.AccessToken
            /\ ~f.returned.panicked
            /\ CarriesUser(f.response)
                 => /\ f.returned.err = NoErr
                    /\ f.returned.metadata
                           = [UserId |-> FormatFloat(f.response.id.num),
                              Username |-> f.response.login.str]
            /\ ~CarriesUser(f.response)
                 => f.returned.err # NoErr /\ f.returned.metadata = NoMetadata


(***************************************************************************)
(* What the properties of the effects of Authenticate read off a step.     *)
(***************************************************************************)
\* the step is an Authenticate served by worker w
AuthenticateStep(w) == inv'[w].kind = "authenticate" /\ inv'[w].id # inv[w].id

=============================================================================
